---- MODULE Spec2Model ----
(***************************************************************************)
(* A model of mipsmatch: the MIPS instruction normalizer, the Rabin-Karp   *)
(* hasher, the fingerprint value type, the evaluator and the scanner.      *)
(*                                                                         *)
(* Number representation.  The program computes with u32 and u64 values;   *)
(* the hash parameters (radix 2^32, modulus 0xFFFFFFEF) do not fit the     *)
(* integers of the model checker, so an unsigned value is a tuple of       *)
(* 16-bit limbs, most significant first: a u32 is <<hi, lo>> and a u64 is  *)
(* <<l3, l2, l1, l0>>.  The operators Add64, Sub64, Mul64, Mod64 are the   *)
(* u64 operators +, -, *, % of the source, computed exactly.               *)
(***************************************************************************)
EXTENDS Integers, Sequences, FiniteSets, TLC

----------------------------------------------------------------------------
(* Unsigned arithmetic on limbs *)

B16 == 65536

U64Zero == <<0, 0, 0, 0>>
U64One == <<0, 0, 0, 1>>
U64Max == <<65535, 65535, 65535, 65535>>

\* u32 as u64 (the source's `x as u64`)
U32AsU64(w) == <<0, 0, w[1], w[2]>>

\* a small natural (below 2^16) as u64
SmallAsU64(n) == <<0, 0, 0, n>>

\* the product of two 16-bit limbs as <<high limb, low limb>>
Mul16(a, b) ==
    LET p1 == a * (b \div 256)
        p0 == a * (b % 256)
        l  == (p1 % 256) * 256 + p0
    IN  <<(p1 \div 256) + (l \div B16), l % B16>>

\* the limbs of a sequence of column sums (most significant first) once the
\* carries, or the borrows of negative sums, have moved left; c comes in from
\* the right and what leaves on the left is dropped (wrapping arithmetic)
RECURSIVE Carried(_, _)
Carried(cols, c) ==
    IF cols = <<>> THEN <<>>
    ELSE Carried(SubSeq(cols, 1, Len(cols) - 1), (cols[Len(cols)] + c) \div B16)
             \o <<(cols[Len(cols)] + c) % B16>>

\* a + b on u64 (wrapping)
Add64(a, b) == Carried(<<a[1] + b[1], a[2] + b[2], a[3] + b[3], a[4] + b[4]>>, 0)

\* a - b on u64 (wrapping; the callers have a >= b)
Sub64(a, b) == Carried(<<a[1] - b[1], a[2] - b[2], a[3] - b[3], a[4] - b[4]>>, 0)

Lt64(a, b) ==
    \/ a[1] < b[1]
    \/ a[1] = b[1] /\ a[2] < b[2]
    \/ a[1] = b[1] /\ a[2] = b[2] /\ a[3] < b[3]
    \/ a[1] = b[1] /\ a[2] = b[2] /\ a[3] = b[3] /\ a[4] < b[4]

\* column k of the product a * b (limbs counted from the least significant
\* one): the low halves of the limb products of weight k and the high halves
\* of those of weight k - 1, summed over the limbs i.. of a
RECURSIVE MulColumn(_, _, _, _)
MulColumn(a, b, k, i) ==
    IF i > 3 THEN 0
    ELSE (IF k - i \in 0..3 THEN Mul16(a[4 - i], b[4 - (k - i)])[2] ELSE 0)
         + (IF k - 1 - i \in 0..3 THEN Mul16(a[4 - i], b[4 - (k - 1 - i)])[1] ELSE 0)
         + MulColumn(a, b, k, i + 1)

\* a * b on u64, the low 64 bits of the product
Mul64(a, b) == Carried([n \in 1..4 |-> MulColumn(a, b, 4 - n, 0)], 0)

\* a * d for a u64 a and a limb d: the five limbs of the full product
MulLimb80(a, d) == Carried([n \in 1..5 |-> MulColumn(a, SmallAsU64(d), 5 - n, 0)], 0)

\* the number of bits of a limb and of a u64 (0 for 0)
BitLen16(v) == IF v = 0 THEN 0 ELSE CHOOSE n \in 1..16 : 2^(n - 1) <= v /\ v < 2^n

BitLen64(a) ==
    IF a[1] # 0 THEN 48 + BitLen16(a[1])
    ELSE IF a[2] # 0 THEN 32 + BitLen16(a[2])
    ELSE IF a[3] # 0 THEN 16 + BitLen16(a[3])
    ELSE BitLen16(a[4])

\* Five-limb values (below 2^80) are the partial remainders of a division.
Lt80(x, y) ==
    \/ x[1] < y[1]
    \/ x[1] = y[1] /\ Lt64(<<x[2], x[3], x[4], x[5]>>, <<y[2], y[3], y[4], y[5]>>)

Sub80(x, y) ==
    Carried(<<x[1] - y[1], x[2] - y[2], x[3] - y[3], x[4] - y[4], x[5] - y[5]>>, 0)

\* floor(x / 2^s) for a five-limb x whose shifted value is below 2^31
Shr80(x, s) ==
    LET j == s \div 16
        b == s % 16
        l(k) == IF k > 4 THEN 0 ELSE x[5 - k]
        t(k, e) == IF l(k) = 0 THEN 0 ELSE l(k) * 2^e
    IN  (l(j) \div 2^b) + t(j + 1, 16 - b) + t(j + 2, 32 - b)

\* a quotient digit that does not exceed the true one: from the estimate e
QuotientDigit(e) == IF e = 0 THEN 1 ELSE IF e > 65535 THEN 65535 ELSE e

\* x mod q for a five-limb x below q * 2^16: subtract q times an
\* underestimate of the quotient until the remainder is below q.  s is the
\* shift that leaves the top 15 bits of q and qt those bits.
RECURSIVE Reduce80(_, _, _, _)
Reduce80(x, q, s, qt) ==
    IF Lt80(x, <<0, q[1], q[2], q[3], q[4]>>) THEN <<x[2], x[3], x[4], x[5]>>
    ELSE Reduce80(Sub80(x, MulLimb80(q, QuotientDigit(Shr80(x, s) \div (qt + 1)))),
                  q, s, qt)

\* long division, one limb of a at a time: r is the remainder of the limbs
\* before limb k
RECURSIVE ModLimbs(_, _, _, _, _, _)
ModLimbs(a, q, s, qt, r, k) ==
    IF k > 4 THEN r
    ELSE ModLimbs(a, q, s, qt, Reduce80(<<r[1], r[2], r[3], r[4], a[k]>>, q, s, qt), k + 1)

\* the shift that leaves the top 15 bits of q, and those bits
TopShift(q) == IF BitLen64(q) > 15 THEN BitLen64(q) - 15 ELSE 0

TopBits(q) == Shr80(<<0, q[1], q[2], q[3], q[4]>>, TopShift(q))

\* a % q on u64 (q > 0)
Mod64(a, q) ==
    IF Lt64(a, q) THEN a ELSE ModLimbs(a, q, TopShift(q), TopBits(q), U64Zero, 1)

----------------------------------------------------------------------------
(* Bit operations on limbs and on u32 *)

\* bit i (0 = least significant) of a limb
BitOf16(v, i) == (v \div 2^i) % 2

RECURSIVE AndBits16(_, _, _)
AndBits16(a, b, i) ==
    IF i > 15 THEN 0
    ELSE BitOf16(a, i) * BitOf16(b, i) * 2^i + AndBits16(a, b, i + 1)

\* a & b on u32
And32(a, b) == <<AndBits16(a[1], b[1], 0), AndBits16(a[2], b[2], 0)>>

\* a >> n on u32, for 16 <= n <= 31: the value fits one limb
Shr32(a, n) == a[1] \div 2^(n - 16)

\* bit i (0 = least significant) of a u32
BitOf32(w, i) == IF i >= 16 THEN BitOf16(w[1], i - 16) ELSE BitOf16(w[2], i)

----------------------------------------------------------------------------
(* arch/mips.rs: byte-to-word converters and the instruction normalizer *)

MIPSFamily == {"R3000GTE", "R4000", "R4000Allegrex", "R5900"}

\* byte slices are sequences of naturals below 256
le_bytes_to_u32(bytes) == <<bytes[4] * 256 + bytes[3], bytes[2] * 256 + bytes[1]>>

be_bytes_to_u32(bytes) == <<bytes[1] * 256 + bytes[2], bytes[3] * 256 + bytes[4]>>

bytes_to_le_instruction(bytes) == le_bytes_to_u32(bytes)

bytes_to_be_instruction(bytes) == be_bytes_to_u32(bytes)

\* the mutant of normalize_instruction: opcode 28 is taken for an R-type too
normalize_instruction_rtype28(instruction, family) ==
    LET opcode == Shr32(instruction, 26)
    IN  IF opcode = 0 \/ opcode = 28 THEN instruction
        ELSE IF opcode = 2 \/ opcode = 3 THEN And32(instruction, <<\hFC00, \h0000>>)
        ELSE And32(instruction, <<\hFFFF, \h0000>>)

normalize_instruction(instruction, family) ==
    LET opcode == Shr32(instruction, 26)
    IN  IF opcode = 0 THEN instruction
        ELSE IF opcode = 2 \/ opcode = 3 THEN And32(instruction, <<\hFC00, \h0000>>)
        ELSE And32(instruction, <<\hFFFF, \h0000>>)

bytes_to_normalized_instruction(bytes, family) ==
    LET instruction == IF family = "R4000" THEN bytes_to_be_instruction(bytes)
                       ELSE bytes_to_le_instruction(bytes)
    IN  normalize_instruction(instruction, family)

read_word(bytes, family) ==
    IF family = "R4000" THEN be_bytes_to_u32(bytes) ELSE le_bytes_to_u32(bytes)

\* bytes.chunks(4): the consecutive 4-byte chunks, the last one shorter when
\* the length is no multiple of 4
chunks4(bytes) ==
    [k \in 1..((Len(bytes) + 3) \div 4) |->
        SubSeq(bytes, 4 * k - 3, IF 4 * k <= Len(bytes) THEN 4 * k ELSE Len(bytes))]

----------------------------------------------------------------------------
(* rk.rs: the Rabin-Karp hasher *)

DEFAULT_RADIX == <<\h0000, \h0001, \h0000, \h0000>>
DEFAULT_MODULUS == <<\h0000, \h0000, \hFFFF, \hFFEF>>
FLETCHER_MODULUS == <<\h0000, \h0000, \hFFFF, \hFFFF>>

\* the mutant of horner_hash: the accumulator is not multiplied by the radix
horner_hash_no_radix(acc, s, radix, q) == Mod64(Add64(acc, U32AsU64(s)), q)

\* horner_hash without the reduction
horner_hash_unreduced(acc, s, radix, q) == Add64(Mul64(radix, acc), U32AsU64(s))

horner_hash(acc, s, radix, q) == Mod64(Add64(Mul64(radix, acc), U32AsU64(s)), q)

RabinKarpMIPSHasher_new_with_modulus(family, modulus) ==
    [radix |-> DEFAULT_RADIX, modulus |-> modulus, family |-> family, hash |-> U64Zero]

RabinKarpMIPSHasher_new(family) ==
    RabinKarpMIPSHasher_new_with_modulus(family, DEFAULT_MODULUS)

RabinKarpMIPSHasher_new_fletcher_64(family) ==
    RabinKarpMIPSHasher_new_with_modulus(family, FLETCHER_MODULUS)

\* the fold of hash_be_mips_bytes over a sequence of normalized instructions
RECURSIVE fold_horner(_, _, _, _)
fold_horner(acc, ins, radix, q) ==
    IF ins = <<>> THEN acc
    ELSE fold_horner(horner_hash(acc, Head(ins), radix, q), Tail(ins), radix, q)

\* hash_be_mips_bytes on an aligned slice (the callers model the panic on a
\* misaligned one)
hash_be_mips_bytes(self, hash, bytes) ==
    fold_horner(hash,
                [k \in 1..(Len(bytes) \div 4) |->
                    bytes_to_normalized_instruction(chunks4(bytes)[k], self.family)],
                self.radix, self.modulus)

\* Option<usize> and the panic of a call, as tuples
None == <<"None">>
Some(v) == <<"Some", v>>
Panic == <<"Panic">>

\* arch/mips.rs: BinFormat and determine_bin_fmt.  The chunks are decoded
\* with be_bytes_to_u32, which indexes bytes 0..3 of the chunk: a last chunk
\* of fewer than 4 bytes makes the call panic.
BinFormat == {"BigEndian", "LittleEndian", "BigSwapped", "LittleSwapped"}

determine_bin_fmt(bytes) ==
    LET BE_JR_RA == <<\h0800, \hE003>>
        LE_JR_RA == <<\h03E0, \h0008>>
        BS_JR_RA == <<\h0008, \h03E0>>
        LS_JR_RA == <<\hE003, \h0800>>
        count(pattern) ==
            Cardinality({k \in DOMAIN chunks4(bytes) :
                            be_bytes_to_u32(chunks4(bytes)[k]) = pattern})
        be_count == count(BE_JR_RA)
        le_count == count(LE_JR_RA)
        bs_count == count(BS_JR_RA)
        ls_count == count(LS_JR_RA)
    IN  IF Len(bytes) % 4 # 0 THEN Panic
        ELSE IF be_count > 0 /\ be_count > le_count /\ be_count > bs_count /\ be_count > ls_count
        THEN Some("BigEndian")
        ELSE IF le_count > 0 /\ le_count > bs_count /\ le_count > ls_count
        THEN Some("LittleEndian")
        ELSE IF bs_count > 0 /\ bs_count > ls_count
        THEN Some("BigSwapped")
        ELSE IF ls_count > 0
        THEN Some("LittleSwapped")
        ELSE None

\* the mutant of write: no check of the length, the whole words are folded
RabinKarpMIPSHasher_write_unchecked(self, bytes) ==
    Some([self EXCEPT !.hash = hash_be_mips_bytes(self, self.hash, bytes)])

\* Hasher::write: panics on a misaligned slice, else folds the slice into the hash
RabinKarpMIPSHasher_write_restart(self, bytes) ==
    IF Len(bytes) % 4 # 0 THEN Panic
    ELSE Some([self EXCEPT !.hash = hash_be_mips_bytes(self, U64Zero, bytes)])

RabinKarpMIPSHasher_write(self, bytes) ==
    IF Len(bytes) % 4 # 0 THEN Panic
    ELSE Some([self EXCEPT !.hash = hash_be_mips_bytes(self, self.hash, bytes)])

RabinKarpMIPSHasher_finish(self) == self.hash

\* the removal hash of find: radix^(n-1) mod modulus for a needle of n words
RECURSIVE removal_power(_, _, _, _)
removal_power(rm, n, radix, q) ==
    IF n <= 0 THEN rm
    ELSE removal_power(Mod64(Mul64(radix, rm), q), n - 1, radix, q)

rk_removal_hash_one_more(self, size) ==
    removal_power(U64One, size \div 4, self.radix, self.modulus)

rk_removal_hash(self, size) ==
    removal_power(U64One, (size \div 4) - 1, self.radix, self.modulus)

\* one slide of the window: drop `first`, append `new`
rk_roll(self, hash, rm, first, new) ==
    LET q == self.modulus
        dropped == Mod64(Sub64(Add64(hash, q), Mod64(Mul64(rm, U32AsU64(first)), q)), q)
    IN  horner_hash(dropped, new, self.radix, q)

\* the search of find from the first window on: hash is the hash of the
\* window at word pos, which is a hit when it equals the needle (the test
\* before the zip/map/position chain for pos = 0, the closure of the chain
\* after it); else the window slides by news[pos + 1], a chunk of
\* bytes[size..], and firsts[pos + 1], a chunk of bytes.  Decoding a chunk
\* shorter than 4 bytes panics.
RECURSIVE rk_march(_, _, _, _, _, _, _)
rk_march(self, needle, rm, news, firsts, hash, pos) ==
    IF hash = needle THEN Some(pos * 4)
    ELSE IF pos + 1 > Len(news) THEN None
    ELSE IF Len(news[pos + 1]) < 4 THEN Panic
    ELSE rk_march(self, needle, rm, news, firsts,
                  rk_roll(self, hash, rm,
                          bytes_to_normalized_instruction(firsts[pos + 1], self.family),
                          bytes_to_normalized_instruction(news[pos + 1], self.family)),
                  pos + 1)

\* the early returns of find
rk_find_early_geq(size, bytes) ==
    IF size >= Len(bytes) THEN None
    ELSE IF size = 0 THEN Some(0)
    ELSE <<"Continue">>

rk_find_early(size, bytes) ==
    IF size > Len(bytes) THEN None
    ELSE IF size = 0 THEN Some(0)
    ELSE <<"Continue">>

\* RabinKarpMIPSHasher::find
RabinKarpMIPSHasher_find(self, needle, size, bytes) ==
    LET early == rk_find_early(size, bytes)
    IN  IF early # <<"Continue">> THEN early
        ELSE IF size % 4 # 0 THEN Panic    \* hash_be_mips_bytes: misaligned block
        ELSE rk_march(self, needle, rk_removal_hash(self, size),
                      chunks4(SubSeq(bytes, size + 1, Len(bytes))), chunks4(bytes),
                      hash_be_mips_bytes(self, U64Zero, SubSeq(bytes, 1, size)), 0)

----------------------------------------------------------------------------
(* fingerprint.rs: the fingerprint value type.  A string is a sequence of
   one-character strings. *)

FINGERPRINT_V0_PREFIX == <<"u","r","n",":","d","e","c","o","m","p",":","m","a","t","c","h",":","f","i","n","g","e","r","p","r","i","n","t",":","0",":">>

MODULUS_V0 == <<\h0000, \h0000, \hFFFF, \hFFEF>>

LowerDigits == <<"0", "1", "2", "3", "4", "5", "6", "7", "8", "9", "a", "b", "c", "d", "e", "f">>
UpperDigits == <<"0", "1", "2", "3", "4", "5", "6", "7", "8", "9", "A", "B", "C", "D", "E", "F">>

\* a / d and a % d for a u64 a and a divisor d of at most 16
DivSmall64(a, d) ==
    LET c1 == a[1]
        c2 == (c1 % d) * B16 + a[2]
        c3 == (c2 % d) * B16 + a[3]
        c4 == (c3 % d) * B16 + a[4]
    IN  [quot |-> <<c1 \div d, c2 \div d, c3 \div d, c4 \div d>>, rem |-> c4 % d]

\* the digits of a u64 in a radix, most significant first, as format! prints
\* them with {} (radix 10) and {:x} (radix 16)
RECURSIVE radix_digits(_, _)
radix_digits(a, radix) ==
    IF a = U64Zero THEN <<>>
    ELSE LET dm == DivSmall64(a, radix)
         IN  Append(radix_digits(dm.quot, radix), LowerDigits[dm.rem + 1])

fmt_radix(a, radix) == IF a = U64Zero THEN <<"0">> ELSE radix_digits(a, radix)

fmt_decimal(a) == fmt_radix(a, 10)

fmt_lower_hex(a) == fmt_radix(a, 16)

\* char::to_digit: the value of a digit in a radix, -1 when it is none
to_digit(c, radix) ==
    IF \E i \in 1..radix : LowerDigits[i] = c \/ UpperDigits[i] = c
    THEN (CHOOSE i \in 1..radix : LowerDigits[i] = c \/ UpperDigits[i] = c) - 1
    ELSE -1

\* u64::checked_mul by a radix of at most 16 and u64::checked_add of a
\* digit: None on overflow
Checked80(x) == IF x[1] # 0 THEN None ELSE Some(<<x[2], x[3], x[4], x[5]>>)

checked_mul(a, radix) == Checked80(MulLimb80(a, radix))

checked_add(a, d) == Checked80(Carried(<<0, a[1], a[2], a[3], a[4] + d>>, 0))

\* the digit loop of u64::from_str_radix
RECURSIVE parse_digits(_, _, _)
parse_digits(acc, digits, radix) ==
    IF digits = <<>> THEN <<"Ok", acc>>
    ELSE LET mul == checked_mul(acc, radix)
             x == to_digit(Head(digits), radix)
             sum == checked_add(mul[2], x)
         IN  IF x < 0 THEN <<"Err", "InvalidDigit">>
             ELSE IF mul = None THEN <<"Err", "PosOverflow">>
             ELSE IF sum = None THEN <<"Err", "PosOverflow">>
             ELSE parse_digits(sum[2], Tail(digits), radix)

\* u64::from_str_radix
u64_from_str_radix(src, radix) ==
    IF src = <<>> THEN <<"Err", "Empty">>
    ELSE IF Len(src) = 1 /\ src[1] \in {"+", "-"} THEN <<"Err", "InvalidDigit">>
    ELSE parse_digits(U64Zero, IF src[1] = "+" THEN Tail(src) ELSE src, radix)

starts_with(s, p) == Len(s) >= Len(p) /\ SubSeq(s, 1, Len(p)) = p

strip_prefix(s, p) ==
    IF starts_with(s, p) THEN Some(SubSeq(s, Len(p) + 1, Len(s))) ELSE None

\* str::split(":")
RECURSIVE split_colon(_)
split_colon(s) ==
    IF \A i \in 1..Len(s) : s[i] # ":" THEN <<s>>
    ELSE LET i == CHOOSE i \in 1..Len(s) : s[i] = ":" /\ \A j \in 1..(i - 1) : s[j] # ":"
         IN  <<SubSeq(s, 1, i - 1)>> \o split_colon(SubSeq(s, i + 1, Len(s)))

FormatError(reason) == <<"Err", <<"FormatError", reason>>>>
ParseIntError == <<"Err", <<"ParseIntError">>>>
Ok(v) == <<"Ok", v>>

FingerprintV0_new(size, hash) == [size |-> size, hash |-> hash, modulus |-> None]

FingerprintV0_new_with_modulus_keep(size, hash, modulus) ==
    [size |-> size, hash |-> hash, modulus |-> Some(modulus)]

FingerprintV0_new_with_modulus(size, hash, modulus) ==
    IF modulus = MODULUS_V0 THEN FingerprintV0_new(size, hash)
    ELSE [size |-> size, hash |-> hash, modulus |-> Some(modulus)]

\* parts.get(i).expect(..): the call panics when the part is missing
parts_get_expect(parts, i) == IF i + 1 <= Len(parts) THEN Some(parts[i + 1]) ELSE Panic

\* the field-count check of FingerprintV0::from_str
v0_check_parts_lt1(parts) ==
    IF Len(parts) < 1 THEN FormatError("parts: < 2")
    ELSE IF Len(parts) > 3 THEN FormatError("parts: > 3")
    ELSE Ok(parts)

v0_check_parts(parts) ==
    IF Len(parts) < 2 THEN FormatError("parts: < 2")
    ELSE IF Len(parts) > 3 THEN FormatError("parts: > 3")
    ELSE Ok(parts)

\* the numeric fields of FingerprintV0::from_str, after the field-count check
v0_parse_fields(parts) ==
    LET size_src == parts_get_expect(parts, 0)
        hash_src == parts_get_expect(parts, 1)
        modulus_src == parts_get_expect(parts, 2)
    IN  IF size_src = Panic THEN Panic
        ELSE LET size_part == u64_from_str_radix(size_src[2], 10)
             IN  IF size_part[1] = "Err" THEN ParseIntError
                 ELSE IF hash_src = Panic THEN Panic
                 ELSE LET hash_part == u64_from_str_radix(hash_src[2], 16)
                      IN  IF hash_part[1] = "Err" THEN ParseIntError
                          ELSE IF Len(parts) = 2
                               THEN Ok(FingerprintV0_new(size_part[2], hash_part[2]))
                          ELSE IF modulus_src = Panic THEN Panic
                          ELSE LET modulus_part == u64_from_str_radix(modulus_src[2], 10)
                               IN  IF modulus_part[1] = "Err" THEN ParseIntError
                                   ELSE Ok(FingerprintV0_new_with_modulus(
                                               size_part[2], hash_part[2], modulus_part[2]))

\* <FingerprintV0 as FromStr>::from_str
FingerprintV0_from_str(s) ==
    IF ~starts_with(s, FINGERPRINT_V0_PREFIX) THEN FormatError("prefix")
    ELSE LET data == strip_prefix(s, FINGERPRINT_V0_PREFIX)
         IN  IF data = None THEN FormatError("data")
             ELSE LET checked == v0_check_parts(split_colon(data[2]))
                  IN  IF checked[1] = "Err" THEN checked ELSE v0_parse_fields(checked[2])

\* <Fingerprint as FromStr>::from_str; the only variant is V0
Fingerprint_from_str(s) ==
    IF starts_with(s, FINGERPRINT_V0_PREFIX) THEN FingerprintV0_from_str(s)
    ELSE FormatError("bad version")

\* the mutant of to_string: the hash printed with {} instead of {:x}
FingerprintV0_to_string_decimal_hash(self) ==
    IF self.modulus # None
    THEN FINGERPRINT_V0_PREFIX \o fmt_decimal(self.size) \o <<":">> \o fmt_decimal(self.hash)
             \o <<":">> \o fmt_decimal(self.modulus[2])
    ELSE FINGERPRINT_V0_PREFIX \o fmt_decimal(self.size) \o <<":">> \o fmt_decimal(self.hash)

\* <FingerprintV0 as ToString>::to_string
FingerprintV0_to_string(self) ==
    IF self.modulus # None
    THEN FINGERPRINT_V0_PREFIX \o fmt_decimal(self.size) \o <<":">> \o fmt_lower_hex(self.hash)
             \o <<":">> \o fmt_decimal(self.modulus[2])
    ELSE FINGERPRINT_V0_PREFIX \o fmt_decimal(self.size) \o <<":">> \o fmt_lower_hex(self.hash)

----------------------------------------------------------------------------
(* lib.rs, fingerprint.rs: the options and the evaluator *)

Options_new == [modulus |-> DEFAULT_MODULUS, radix |-> DEFAULT_RADIX, mips_family |-> "R3000GTE"]

Min(a, b) == IF a < b THEN a ELSE b

\* the loop of sig_for_range: walking back from the end, the size up to and
\* including the last instruction that does not normalize to zero
RECURSIVE unpadded_scan(_, _, _)
unpadded_scan(bytes, unpadded_size, family) ==
    IF unpadded_size <= 0 THEN 0
    ELSE LET i == unpadded_size - 4
             ins == bytes_to_normalized_instruction(SubSeq(bytes, i + 1, i + 4), family)
         IN  IF ins # <<0, 0>> THEN i + 4 ELSE unpadded_scan(bytes, i, family)

\* the mutant of unpadded_size: every trailing zero word is dropped
unpadded_size_keep_none(bytes, family) == unpadded_scan(bytes, Len(bytes), family)

\* the size sig_for_range hashes: the trailing zero words dropped, but one
unpadded_size(bytes, family) == Min(unpadded_scan(bytes, Len(bytes), family) + 4, Len(bytes))

\* sig_for_range; a slice that is no whole number of words panics (in the
\* hasher's write, or in the loop's subtraction)
sig_for_range(bytes, options) ==
    IF Len(bytes) % 4 # 0 THEN Panic
    ELSE LET size == unpadded_size(bytes, options.mips_family)
             hasher == RabinKarpMIPSHasher_new_with_modulus(options.mips_family, options.modulus)
             written == RabinKarpMIPSHasher_write(hasher, SubSeq(bytes, 1, size))
         IN  Some(FingerprintV0_new_with_modulus(SmallAsU64(size),
                                                 RabinKarpMIPSHasher_finish(written[2]),
                                                 options.modulus))

\* calculate_object_hashes: the SegmentSignature written for one ObjectMap.
\* calculate_rodata_signature returns None for every object.
calculate_object_hashes(map, bytes, options) ==
    LET start == map.offset - map.vrom
        object_hash == sig_for_range(SubSeq(bytes, start + 1, start + map.size), options)
        symbol_hash(symbol) ==
            sig_for_range(SubSeq(bytes, symbol.offset - map.vrom + 1,
                                 symbol.offset - map.vrom + symbol.size), options)
    IN  IF object_hash = Panic
           \/ \E k \in DOMAIN map.text_symbols : symbol_hash(map.text_symbols[k]) = Panic
        THEN Panic
        ELSE Some([name |-> map.object,
                   fingerprint |-> object_hash[2],
                   size |-> map.size,
                   family |-> options.mips_family,
                   rodata |-> None,
                   functions |-> [k \in DOMAIN map.text_symbols |->
                                     [name |-> map.text_symbols[k].name,
                                      fingerprint |-> symbol_hash(map.text_symbols[k])[2],
                                      size |-> map.text_symbols[k].size]]])

----------------------------------------------------------------------------
(* scan.rs: the scanner.  The scanner compares u64 fingerprints: the hash of
   a signature's fingerprint. *)

\* the first loop of find: the hash of up to size words from start
RECURSIVE scan_find_fill(_, _, _, _, _, _, _)
scan_find_fill(hash, count, i, size, end, instructions, options) ==
    IF count < size /\ i < end
    THEN IF i + 1 > Len(instructions) THEN Panic
         ELSE scan_find_fill(Mod64(Add64(Mul64(options.radix, hash),
                                         U32AsU64(instructions[i + 1])),
                                   options.modulus),
                             count + 1, i + 1, size, end, instructions, options)
    ELSE <<"Filled", hash, count, i>>

\* the second loop of find: the window rolled forward until the hash matches
RECURSIVE scan_find_roll(_, _, _, _, _, _, _, _)
scan_find_roll(hash, i, count, rm, fingerprint, end, instructions, options) ==
    IF hash # fingerprint /\ i < end
    THEN IF i + 1 > Len(instructions) \/ i - count < 0 THEN Panic
         ELSE LET q == options.modulus
                  first == U32AsU64(instructions[i - count + 1])
                  dropped == Mod64(Sub64(Add64(hash, q), Mod64(Mul64(rm, first), q)), q)
                  h == Mod64(Add64(Mul64(options.radix, dropped), U32AsU64(instructions[i + 1])), q)
              IN  scan_find_roll(h, i + 1, count, rm, fingerprint, end, instructions, options)
    ELSE <<"Rolled", hash, i>>

\* the check between the two loops of find
scan_find_at_end(i, instructions) == i >= Len(instructions)

\* the end of find: the offset of the window the second loop stopped at
scan_find_result(rolled, fingerprint, count) ==
    IF rolled = Panic THEN Panic
    ELSE IF rolled[2] = fingerprint THEN Some((rolled[3] - count) * 4)
    ELSE None

\* find from the check between its loops on
scan_find_filled(filled, rm, fingerprint, end, instructions, options) ==
    IF filled = Panic THEN Panic
    ELSE IF scan_find_at_end(filled[4], instructions) THEN None
    ELSE scan_find_result(scan_find_roll(filled[2], filled[4], filled[3], rm,
                                         fingerprint, end, instructions, options),
                          fingerprint, filled[3])

\* find.  A size of 0 makes size - 1 underflow: the debug build panics and the
\* release build starts a loop of 2^64 - 1 iterations; either way the call
\* does not return, which is the outcome Panic here.
scan_find(fingerprint, size, instructions, start, end, options) ==
    IF size = 0 THEN Panic
    ELSE scan_find_filled(scan_find_fill(U64Zero, 0, start, size, end, instructions, options),
                          removal_power(U64One, size - 1, options.radix, options.modulus),
                          fingerprint, end, instructions, options)

\* address_space_is_used; the allocated address space is a set of
\* <<block_start, block_size>>
address_space_is_used_start_only(offset, size, allocated_address_space) ==
    \E block \in allocated_address_space :
        offset >= block[1] /\ offset < block[1] + block[2]

address_space_is_used(offset, size, allocated_address_space) ==
    LET end == offset + size
    IN  \E block \in allocated_address_space :
            LET block_start == block[1]
                block_end == block[1] + block[2]
            IN  \/ offset >= block_start /\ offset < block_end
                \/ end > block_start /\ end <= block_end

\* RODataOffset
RODataOffset(offset, size) == [offset |-> offset, size |-> size]

\* the word at byte i of bytes lies strictly between segment_start and
\* segment_end (u64 values; the word is read in the family's byte order)
addr_in_segment(bytes, i, mips_family, segment_start, segment_end) ==
    /\ Lt64(segment_start, U32AsU64(read_word(SubSeq(bytes, i + 1, i + 4), mips_family)))
    /\ Lt64(U32AsU64(read_word(SubSeq(bytes, i + 1, i + 4), mips_family)), segment_end)

\* the loop of find_only_jump_tables from byte i on.  &bytes[i..(i + 4)]
\* panics when fewer than 4 bytes are left.
RECURSIVE only_jump_tables_loop(_, _, _, _, _, _, _, _, _, _)
only_jump_tables_loop(i, found_segment_addr, range_start, segment_start, segment_end, vrom_start, vrom_end, rodata_size, mips_family, bytes) ==
    IF i >= Len(bytes) THEN None
    ELSE IF i >= vrom_start /\ i < vrom_end
    THEN only_jump_tables_loop(i + 4, found_segment_addr, range_start, segment_start,
                               segment_end, vrom_start, vrom_end, rodata_size, mips_family, bytes)
    ELSE IF i + 4 > Len(bytes) THEN Panic
    ELSE IF addr_in_segment(bytes, i, mips_family, segment_start, segment_end)
    THEN only_jump_tables_loop(i + 4, TRUE, IF found_segment_addr THEN range_start ELSE i,
                               segment_start, segment_end, vrom_start, vrom_end, rodata_size,
                               mips_family, bytes)
    ELSE IF found_segment_addr /\ i - range_start = rodata_size
    THEN Some(RODataOffset(range_start, rodata_size))
    ELSE only_jump_tables_loop(i + 4, FALSE, range_start, segment_start, segment_end,
                               vrom_start, vrom_end, rodata_size, mips_family, bytes)

find_only_jump_tables(segment_start, segment_end, vrom_start, vrom_end, rodata_size, mips_family, bytes) ==
    only_jump_tables_loop(0, FALSE, 0, segment_start, segment_end, vrom_start, vrom_end,
                          rodata_size, mips_family, bytes)

\* the loop of find_ends_with_jump_table from byte i on:
\* <<found_segment_addr, last_offset>> at its end
RECURSIVE ends_with_jump_table_loop(_, _, _, _, _, _, _, _, _)
ends_with_jump_table_loop(i, found_segment_addr, last_offset, segment_start, segment_end, vrom_start, vrom_end, mips_family, bytes) ==
    IF i >= Len(bytes) THEN <<found_segment_addr, last_offset>>
    ELSE IF i >= vrom_start /\ i < vrom_end
    THEN ends_with_jump_table_loop(i + 4, found_segment_addr, last_offset, segment_start,
                                   segment_end, vrom_start, vrom_end, mips_family, bytes)
    ELSE IF i + 4 > Len(bytes) THEN Panic
    ELSE IF addr_in_segment(bytes, i, mips_family, segment_start, segment_end)
    THEN ends_with_jump_table_loop(i + 4, TRUE, i, segment_start, segment_end,
                                   vrom_start, vrom_end, mips_family, bytes)
    ELSE ends_with_jump_table_loop(i + 4, found_segment_addr, last_offset, segment_start,
                                   segment_end, vrom_start, vrom_end, mips_family, bytes)

\* the end of find_ends_with_jump_table.  last_offset - rodata_size + 4 is
\* usize arithmetic: when rodata_size > last_offset the subtraction panics in
\* a build with overflow checks and wraps in a build without them (and the
\* addition then wraps back, or leaves a value beyond every length).
ends_with_jump_table_result(scanned, rodata_size, overflow_checks, bytes) ==
    IF scanned = Panic THEN Panic
    ELSE IF overflow_checks /\ rodata_size > scanned[2] THEN Panic
    ELSE LET rodata_offset == Add64(Sub64(SmallAsU64(scanned[2]), SmallAsU64(rodata_size)),
                                    SmallAsU64(4))
         IN  IF scanned[1] /\ Lt64(U64Zero, rodata_offset)
                /\ Lt64(rodata_offset, SmallAsU64(Len(bytes)))
             THEN Some(RODataOffset(rodata_offset[4], rodata_size))
             ELSE None

find_ends_with_jump_table(segment_start, segment_end, vrom_start, vrom_end, rodata_size, mips_family, bytes, overflow_checks) ==
    ends_with_jump_table_result(
        ends_with_jump_table_loop(0, FALSE, 0, segment_start, segment_end, vrom_start,
                                  vrom_end, mips_family, bytes),
        rodata_size, overflow_checks, bytes)

\* find_rodata; rodata is None or Some([rodataType, size]), vram_start None
\* or Some(a u64)
find_rodata(rodata, vram_start, segment_offset, segment_size, mips_family, bytes, overflow_checks) ==
    IF rodata = None \/ vram_start = None THEN None
    ELSE LET segment_start == Add64(vram_start[2], SmallAsU64(segment_offset))
             segment_end == Add64(segment_start, SmallAsU64(segment_size))
         IN  IF rodata[2].rodataType = "OnlyJumpTables"
             THEN find_only_jump_tables(segment_start, segment_end, segment_offset,
                                        segment_offset + segment_size, rodata[2].size,
                                        mips_family, bytes)
             ELSE IF rodata[2].rodataType = "EndsWithJumpTable"
             THEN find_ends_with_jump_table(segment_start, segment_end, segment_offset,
                                            segment_offset + segment_size, rodata[2].size,
                                            mips_family, bytes, overflow_checks)
             ELSE None

\* HashMap::insert on a map kept as a set of <<key, value>>
map_insert(map, key, value) == {e \in map : e[1] # key} \cup {<<key, value>>}

\* where the search for the next function starts, after a function is found
scan_next_position_stay(function_offset, function) == function_offset

scan_next_position(function_offset, function) == function_offset + function.size

\* the function loop of scan: each function searched from position to the end
\* of the segment
RECURSIVE scan_functions(_, _, _, _, _, _, _, _)

\* the body of the function loop once find has returned function_offset
scan_function_found(function_offset, functions, k, position, map, offset, segment, instructions, options) ==
    IF function_offset = Panic THEN Panic
    ELSE IF function_offset = None
         THEN scan_functions(functions, k + 1, position, map,
                             offset, segment, instructions, options)
    ELSE scan_functions(functions, k + 1,
                        scan_next_position(function_offset[2], functions[k]),
                        map_insert(map, functions[k].name, function_offset[2]),
                        offset, segment, instructions, options)

scan_functions(functions, k, position, map, offset, segment, instructions, options) ==
    IF k > Len(functions) THEN <<"Map", map>>
    ELSE scan_function_found(scan_find(functions[k].fingerprint.hash, functions[k].size \div 4,
                                       instructions, position \div 4,
                                       (offset + segment.size) \div 4, options),
                             functions, k, position, map,
                             offset, segment, instructions, options)

\* best_name: a name of the greatest count; among several, the one the HashMap
\* happens to iterate last, so the result is a set of possible names
best_name(names) ==
    LET count(n) == Cardinality({i \in DOMAIN names : names[i] = n})
    IN  IF names = <<>> THEN {None}
        ELSE {Some(names[i]) : i \in {j \in DOMAIN names :
                                         \A l \in DOMAIN names : count(names[j]) >= count(names[l])}}

\* the name map of scan: the names of the documents of one fingerprint, in
\* document order
scan_names(library, fingerprint) ==
    LET Same(d) == d.fingerprint.hash = fingerprint
        docs == SelectSeq(library, Same)
    IN  [i \in DOMAIN docs |-> docs[i].name]

\* the segment map of scan: each distinct document with its count
scan_segment_count(library, segment) ==
    Cardinality({i \in DOMAIN library : library[i] = segment})

\* the mutant of scan_sorts_before: the counts are not compared
scan_sorts_before_size_only(library, segment_a, segment_b) ==
    segment_a.size >= segment_b.size

\* segment_a may come before segment_b after the sort: size descending, then
\* count descending
scan_sorts_before(library, segment_a, segment_b) ==
    \/ segment_a.size > segment_b.size
    \/ /\ segment_a.size = segment_b.size
       /\ scan_segment_count(library, segment_a) >= scan_segment_count(library, segment_b)

\* the orders the sort can leave the distinct documents in: the map the
\* documents are collected from iterates in no particular order, so
\* documents of equal size and count come out in any order
scan_sorted_segments(library) ==
    LET segments == {library[i] : i \in DOMAIN library}
        n == Cardinality(segments)
    IN  {order \in [1..n -> segments] :
            /\ \A i, j \in 1..n : i # j => order[i] # order[j]
            /\ \A i, j \in 1..n : i < j => scan_sorts_before(library, order[i], order[j])}

\* the haystack decoded into normalized instructions
scan_instructions(bytes, family) ==
    [k \in 1..((Len(bytes) + 3) \div 4) |-> bytes_to_normalized_instruction(chunks4(bytes)[k], family)]

\* scan, up to its loop, on the state s of a scan (the record described at
\* ScState): the documents read, counted and sorted, the family taken from
\* each document in turn, the image decoded.  One outcome for each order the
\* sort can leave.
scan_prepared(s) ==
    LET family == IF s.library = <<>> THEN s.options.mips_family
                  ELSE s.library[Len(s.library)].family
    IN  {[s EXCEPT !.options = [s.options EXCEPT !.mips_family = family],
                   !.instructions = scan_instructions(s.image, family),
                   !.sorted_segments = order,
                   !.pc = IF order = <<>> THEN "done" ELSE "match"] :
            order \in scan_sorted_segments(s.library)}

\* the mutant of scan_write: the document is not written
scan_write_dropped(writer, so) == writer

\* writeln! and serialize_to_yaml: the document appended to the sink
scan_write(writer, so) == Append(writer, so)

\* the mutant of scan_turn_mapped: a dropped segment gives its interval back
scan_turn_mapped_release(s, segment, after, offset, allocated, map) ==
    IF map = Panic
    THEN {[s EXCEPT !.allocated_address_space = allocated,
                    !.log = Append(@, "panic"), !.pc = "aborted"]}
    ELSE IF Len(segment.functions) # Cardinality(map[2])
    THEN {[s EXCEPT !.log = Append(@, "dropped"), !.next = @ + 1, !.pc = after]}
    ELSE {[s EXCEPT !.allocated_address_space = allocated,
                    !.out = scan_write(@, [name |-> IF best = None THEN segment.name
                                                    ELSE best[2],
                                           offset |-> offset,
                                           size |-> segment.size,
                                           rodata |-> None,
                                           symbols |-> map[2]]),
                    !.out_segment = Append(@, segment),
                    !.log = Append(@, "emitted"),
                    !.next = @ + 1, !.pc = after] :
             best \in best_name(scan_names(s.library, segment.fingerprint.hash))}

\* the end of a turn of the loop of scan, once the functions are searched:
\* one outcome for each name best_name can return
scan_turn_mapped(s, segment, after, offset, allocated, map) ==
    IF map = Panic
    THEN {[s EXCEPT !.allocated_address_space = allocated,
                    !.log = Append(@, "panic"), !.pc = "aborted"]}
    ELSE IF Len(segment.functions) # Cardinality(map[2])
    THEN {[s EXCEPT !.allocated_address_space = allocated,
                    !.log = Append(@, "dropped"), !.next = @ + 1, !.pc = after]}
    ELSE {[s EXCEPT !.allocated_address_space = allocated,
                    !.out = scan_write(@, [name |-> IF best = None THEN segment.name
                                                    ELSE best[2],
                                           offset |-> offset,
                                           size |-> segment.size,
                                           rodata |-> None,
                                           symbols |-> map[2]]),
                    !.out_segment = Append(@, segment),
                    !.log = Append(@, "emitted"),
                    !.next = @ + 1, !.pc = after] :
             best \in best_name(scan_names(s.library, segment.fingerprint.hash))}

\* a turn of the loop of scan once find has returned found
scan_turn_found(s, segment, after, found) ==
    IF found = Panic
    THEN {[s EXCEPT !.log = Append(@, "panic"), !.pc = "aborted"]}
    ELSE IF found = None
    THEN {[s EXCEPT !.log = Append(@, "not found"), !.next = @ + 1, !.pc = after]}
    ELSE IF address_space_is_used(found[2], segment.size, s.allocated_address_space)
    THEN {[s EXCEPT !.log = Append(@, "used"), !.next = @ + 1, !.pc = after]}
    ELSE scan_turn_mapped(s, segment, after, found[2],
                          map_insert(s.allocated_address_space, found[2], segment.size),
                          scan_functions(segment.functions, 1, found[2], {}, found[2],
                                         segment, s.instructions, s.options))

\* one turn of the loop of scan over the sorted segments
scan_turn(s) ==
    scan_turn_found(s, s.sorted_segments[s.next],
                    IF s.next = Len(s.sorted_segments) THEN "done" ELSE "match",
                    scan_find(s.sorted_segments[s.next].fingerprint.hash,
                              s.sorted_segments[s.next].size \div 4,
                              s.instructions, 0, Len(s.instructions), s.options))

\* the sequences of documents a scan can have written when it ends
RECURSIVE scan_outputs(_)
scan_outputs(s) ==
    IF s.pc = "match" THEN UNION {scan_outputs(t) : t \in scan_turn(s)}
    ELSE {s.out}

----------------------------------------------------------------------------
(* Sample data *)

\* instruction words as the bytes of a little-endian image
NOP_BYTES == <<0, 0, 0, 0>>
JR_RA_BYTES == <<\h08, \h00, \hE0, \h03>>
JAL_BYTES == <<\h03, \h02, \h01, \h0C>>
ADDU_BYTES == <<\h21, \h10, \h00, \h00>>

RECURSIVE Flatten(_)
Flatten(ss) == IF ss = <<>> THEN <<>> ELSE Head(ss) \o Flatten(Tail(ss))

\* all sequences of at most n elements of S
SeqsUpTo(S, n) == UNION {[1..k -> S] : k \in 0..n}

SmallModulus == SmallAsU64(3)

\* the (family, modulus) pairs the hashers are built with
HasherConfigs ==
    {<<"R3000GTE", DEFAULT_MODULUS>>, <<"R3000GTE", FLETCHER_MODULUS>>,
     <<"R3000GTE", SmallModulus>>, <<"R4000", DEFAULT_MODULUS>>}

----------------------------------------------------------------------------
(* State *)

VARIABLES
    norm,    \* the normalizer's call: instruction, family, normalized, pc
    hw,      \* a hasher being written to: hasher, written (the slices taken),
             \* attempt (the slice of the last call of write), status
    fnd,     \* a call of RabinKarpMIPSHasher::find: self, size, bytes, needle, result, pc
    fp,      \* a fingerprint value: how it was made, its rendering, the parse results, pc
    sc,      \* an evaluation and a scan: the image, the library, the scan's maps and output
    bf,      \* a call of determine_bin_fmt: bytes, result, pc
    pf       \* a call of a helper function of the scanner: its arguments, result, pc

vars == <<norm, hw, fnd, fp, sc, bf, pf>>

\* the parts of the state a specification does not exercise
NormIdle == norm = [instruction |-> <<0, 0>>, family |-> "R3000GTE",
                    normalized |-> <<0, 0>>, pc |-> "idle"]
HwIdle == hw = [hasher |-> RabinKarpMIPSHasher_new("R3000GTE"), written |-> <<>>,
                attempt |-> <<>>, status |-> "idle"]
FndIdle == fnd = [self |-> RabinKarpMIPSHasher_new("R3000GTE"), size |-> 0, bytes |-> <<>>,
                  needle |-> U64Zero, result |-> None, pc |-> "idle"]
FpInput(kind, size, hash, modulus, src) ==
    [kind |-> kind, size |-> size, hash |-> hash, modulus |-> modulus, src |-> src]
FpIdle == fp = [input |-> FpInput("none", U64Zero, U64Zero, None, <<>>), value |-> None,
                result |-> None, text |-> None, reparsed |-> None, pc |-> "idle"]
\* image: the bytes of the binary; library: the documents read, in order;
\* evaluated: for each document, the ObjectMap it was evaluated from, if any;
\* options, instructions, sorted_segments, allocated_address_space: the locals
\* of scan; next: the index of the segment the loop is at; out: the
\* SegmentOffsets written; out_segment, log: for each emission its segment,
\* and for each segment scanned what became of it
ScState(image, pc) ==
    [image |-> image, library |-> <<>>, evaluated |-> <<>>, options |-> Options_new,
     instructions |-> <<>>, sorted_segments |-> <<>>, allocated_address_space |-> {},
     next |-> 1, out |-> <<>>, out_segment |-> <<>>, log |-> <<>>, pc |-> pc]
ScIdle == sc = ScState(<<>>, "idle")
BfIdle == bf = [bytes |-> <<>>, result |-> None, pc |-> "idle"]
PfIdle == pf = [args |-> <<>>, result |-> None, pc |-> "idle"]

----------------------------------------------------------------------------
(* The normalizer applied to one instruction *)

\* instructions of every primary opcode, with operand fields of several shapes
SampleInstructions ==
    {<<opcode * 1024 + top, low>> :
        opcode \in 0..63, top \in {0, 1, \h3E0, \h3FF}, low \in {0, 8, \h0203, \hFFFF}}

InitNorm ==
    /\ norm \in [instruction : SampleInstructions, family : MIPSFamily,
                 normalized : {<<0, 0>>}, pc : {"call"}]
    /\ HwIdle /\ FndIdle /\ FpIdle /\ ScIdle /\ BfIdle /\ PfIdle

Normalize ==
    /\ norm.pc = "call"
    /\ norm' = [norm EXCEPT !.normalized = normalize_instruction(norm.instruction, norm.family),
                            !.pc = "done"]
    /\ UNCHANGED <<hw, fnd, fp, sc, bf, pf>>

NextNorm == Normalize

SpecNorm == InitNorm /\ [][NextNorm]_vars

\* the bits normalize clears, by primary opcode (spec 4.1)
ClearedBits(opcode) ==
    IF opcode = 0 THEN {} ELSE IF opcode \in {2, 3} THEN 0..25 ELSE 0..15

\* C2: normalize_instruction(w, family) clears exactly the operand bits the
\* primary opcode w >> 26 prescribes (none for 0, the low 26 for 2 and 3, the
\* low 16 otherwise), keeps every other bit of w, and is the same for every
\* family.
C2_NormalizeMasks ==
    norm.pc = "done" =>
        /\ \A i \in 0..31 :
              BitOf32(norm.normalized, i) =
                 IF i \in ClearedBits(norm.instruction[1] \div 1024) THEN 0
                 ELSE BitOf32(norm.instruction, i)
        /\ \A f \in MIPSFamily :
              normalize_instruction(norm.instruction, f) = norm.normalized

\* an I-type instruction with a non-zero immediate has been normalized
C2_Witness ==
    /\ norm.pc = "done"
    /\ norm.instruction = <<28 * 1024 + 1, \h0203>>
    /\ norm.normalized = <<28 * 1024 + 1, 0>>

----------------------------------------------------------------------------
(* A hasher and the slices written to it *)

MaxWrites == 3

WriteSlices ==
    {<<>>, NOP_BYTES, NOP_BYTES \o NOP_BYTES, JR_RA_BYTES, JAL_BYTES,
     JR_RA_BYTES \o NOP_BYTES, <<1, 2>>, NOP_BYTES \o <<0>>}

InitWrite ==
    /\ \E c \in HasherConfigs :
          hw = [hasher |-> RabinKarpMIPSHasher_new_with_modulus(c[1], c[2]),
                written |-> <<>>, attempt |-> <<>>, status |-> "ok"]
    /\ NormIdle /\ FndIdle /\ FpIdle /\ ScIdle /\ BfIdle /\ PfIdle

Write(bytes) ==
    /\ hw.status = "ok"
    /\ Len(hw.written) < MaxWrites
    /\ \E r \in {RabinKarpMIPSHasher_write(hw.hasher, bytes)} :
          hw' = IF r = Panic THEN [hw EXCEPT !.attempt = bytes, !.status = "panic"]
                ELSE [hw EXCEPT !.hasher = r[2], !.written = Append(@, bytes),
                                !.attempt = bytes]
    /\ UNCHANGED <<norm, fnd, fp, sc, bf, pf>>

NextWrite == \E bytes \in WriteSlices : Write(bytes)

SpecWrite == InitWrite /\ [][NextWrite]_vars

\* the Horner hash of a word sequence, defined on its last word:
\* H(<<>>) = 0 and H(ws \o <<w>>) = (R * H(ws) + w) mod q
RECURSIVE HornerOf(_, _, _)
HornerOf(ws, radix, q) ==
    IF ws = <<>> THEN U64Zero
    ELSE Mod64(Add64(Mul64(radix, HornerOf(SubSeq(ws, 1, Len(ws) - 1), radix, q)),
                     U32AsU64(ws[Len(ws)])), q)

\* the normalized words of an aligned byte sequence in the family's endianness
WordsOf(bytes, family) ==
    [k \in 1..(Len(bytes) \div 4) |->
        normalize_instruction(read_word(SubSeq(bytes, 4 * k - 3, 4 * k), family), family)]

\* C3: after any sequence of aligned writes to a fresh hasher, finish() is the
\* Horner fold from 0 over the normalized words of the concatenation of the
\* written slices; it is 0 when nothing or only empty slices were written.
C3_WriteIsHornerFold ==
    hw.status = "ok" =>
        /\ RabinKarpMIPSHasher_finish(hw.hasher)
              = HornerOf(WordsOf(Flatten(hw.written), hw.hasher.family),
                         DEFAULT_RADIX, hw.hasher.modulus)
        /\ Flatten(hw.written) = <<>> => RabinKarpMIPSHasher_finish(hw.hasher) = U64Zero

\* jr $ra and two nops written in two calls hash to 0x5FE0094C (rk.rs test_hash)
C3_Witness ==
    /\ hw.status = "ok"
    /\ hw.written = <<JR_RA_BYTES \o NOP_BYTES, NOP_BYTES>>
    /\ hw.hasher.family = "R3000GTE"
    /\ hw.hasher.modulus = DEFAULT_MODULUS
    /\ RabinKarpMIPSHasher_finish(hw.hasher) = <<0, 0, \h5FE0, \h094C>>

\* C12: write with a slice whose length is no multiple of 4 fails (the
\* "misaligned block" panic) and leaves the accumulator as it was: no word of
\* the slice is folded into the hash
C12_MisalignedWriteFails ==
    [][Len(hw'.attempt) % 4 # 0 =>
          /\ hw'.status = "panic"
          /\ hw'.hasher = hw.hasher
          /\ hw'.written = hw.written]_vars

\* a five-byte slice (one whole zero word and a byte) written after jr $ra; nop
C12_Witness ==
    /\ hw.status = "panic"
    /\ hw.attempt = NOP_BYTES \o <<0>>
    /\ hw.written = <<JR_RA_BYTES \o NOP_BYTES>>
    /\ hw.hasher.modulus = DEFAULT_MODULUS
    /\ RabinKarpMIPSHasher_finish(hw.hasher) = <<0, 0, \h41E0, \h0088>>

\* a slice of all-zero words, one word at least
ZeroWords(bytes) ==
    /\ bytes # <<>>
    /\ Len(bytes) % 4 = 0
    /\ \A i \in DOMAIN bytes : bytes[i] = 0

\* C13: under modulus 0xFFFFFFFF, appending any number of all-zero words to
\* what was written leaves the hash unchanged; under the default modulus
\* 0xFFFFFFEF, appending one all-zero word to a sequence whose hash is not 0
\* gives a different hash
C13_ZeroWordsAppended ==
    [][(hw'.status = "ok" /\ hw'.written # hw.written /\ ZeroWords(hw'.attempt)) =>
          /\ hw.hasher.modulus = FLETCHER_MODULUS =>
                 RabinKarpMIPSHasher_finish(hw'.hasher) = RabinKarpMIPSHasher_finish(hw.hasher)
          /\ (/\ hw.hasher.modulus = DEFAULT_MODULUS
              /\ RabinKarpMIPSHasher_finish(hw.hasher) # U64Zero
              /\ Len(hw'.attempt) = 4) =>
                 RabinKarpMIPSHasher_finish(hw'.hasher) # RabinKarpMIPSHasher_finish(hw.hasher)]_vars

\* jr $ra; nop and then two more nops under modulus 0xFFFFFFFF: the hash stays
\* 0x3E00008 (rk.rs test_fletcher_64)
C13_Witness ==
    /\ hw.status = "ok"
    /\ hw.written = <<JR_RA_BYTES \o NOP_BYTES, NOP_BYTES \o NOP_BYTES>>
    /\ hw.attempt = NOP_BYTES \o NOP_BYTES
    /\ hw.hasher.modulus = FLETCHER_MODULUS
    /\ RabinKarpMIPSHasher_finish(hw.hasher) = <<0, 0, \h03E0, \h0008>>

----------------------------------------------------------------------------
(* determine_bin_fmt on one binary *)

MaxFmtChunks == 3

\* the byte orders of jr $ra (mips.rs tests), a nop, and a word that is neither
BE_JR_RA_CHUNK == <<\h08, \h00, \hE0, \h03>>
LE_JR_RA_CHUNK == <<\h03, \hE0, \h00, \h08>>
BS_JR_RA_CHUNK == <<\h00, \h08, \h03, \hE0>>
LS_JR_RA_CHUNK == <<\hE0, \h03, \h08, \h00>>

FmtChunks == {BE_JR_RA_CHUNK, LE_JR_RA_CHUNK, BS_JR_RA_CHUNK, LS_JR_RA_CHUNK, NOP_BYTES,
              <<1, 2, 3, 4>>}

FmtTails == {<<>>, <<\h08, \h00>>}

InitFmt ==
    /\ \E cs \in SeqsUpTo(FmtChunks, MaxFmtChunks), tail \in FmtTails :
          bf = [bytes |-> Flatten(cs) \o tail, result |-> None, pc |-> "call"]
    /\ NormIdle /\ HwIdle /\ FndIdle /\ FpIdle /\ ScIdle /\ PfIdle

DetermineBinFmt ==
    /\ bf.pc = "call"
    /\ bf' = [bf EXCEPT !.result = determine_bin_fmt(bf.bytes), !.pc = "done"]
    /\ UNCHANGED <<norm, hw, fnd, fp, sc, pf>>

NextFmt == DetermineBinFmt

SpecFmt == InitFmt /\ [][NextFmt]_vars

\* the formats in the order of the tie-break, and the bytes of each one's jr $ra
FmtOrder == <<"BigEndian", "LittleEndian", "BigSwapped", "LittleSwapped">>

FmtPattern == <<BE_JR_RA_CHUNK, LE_JR_RA_CHUNK, BS_JR_RA_CHUNK, LS_JR_RA_CHUNK>>

\* the number of aligned 4-byte chunks of bytes that are the k-th pattern
FmtCount(bytes, k) ==
    Cardinality({c \in 1..(Len(bytes) \div 4) : SubSeq(bytes, 4 * c - 3, 4 * c) = FmtPattern[k]})

FmtGreatest(bytes) ==
    CHOOSE m \in {FmtCount(bytes, k) : k \in 1..4} : \A k \in 1..4 : FmtCount(bytes, k) <= m

\* C14: determine_bin_fmt returns the format whose jr $ra pattern is counted
\* most often among the aligned chunks; of several formats with the greatest
\* positive count the first in the order BigEndian, LittleEndian, BigSwapped,
\* LittleSwapped; and none exactly when all four counts are zero
C14_DetermineBinFmt ==
    (bf.pc = "done" /\ Len(bf.bytes) % 4 = 0) =>
        IF FmtGreatest(bf.bytes) = 0 THEN bf.result = None
        ELSE bf.result = Some(FmtOrder[CHOOSE k \in 1..4 :
                                          /\ FmtCount(bf.bytes, k) = FmtGreatest(bf.bytes)
                                          /\ \A j \in 1..(k - 1) :
                                                FmtCount(bf.bytes, j) < FmtGreatest(bf.bytes)])

----------------------------------------------------------------------------
(* address_space_is_used on one block and one claim set *)

MaxBlockEnd == 6

\* the blocks [start, start + size) of at least one byte up to MaxBlockEnd
Blocks == {b \in (0..(MaxBlockEnd - 1)) \X (1..MaxBlockEnd) : b[1] + b[2] <= MaxBlockEnd}

\* the claim sets: a HashMap keyed by the start, of at most two intervals
ClaimSets ==
    {{}} \cup {{a} : a \in Blocks} \cup {{a, b} : a, b \in {x \in Blocks : x[2] <= 2}}

InitUsed ==
    /\ \E block \in Blocks, claims \in {c \in ClaimSets : \A a, b \in c : a[1] = b[1] => a = b} :
          pf = [args |-> <<block[1], block[2], claims>>, result |-> None, pc |-> "call"]
    /\ NormIdle /\ HwIdle /\ FndIdle /\ FpIdle /\ ScIdle /\ BfIdle

AddressSpaceIsUsed ==
    /\ pf.pc = "call"
    /\ pf' = [pf EXCEPT !.result = address_space_is_used(pf.args[1], pf.args[2], pf.args[3]),
                        !.pc = "done"]
    /\ UNCHANGED <<norm, hw, fnd, fp, sc, bf>>

NextUsed == AddressSpaceIsUsed

SpecUsed == InitUsed /\ [][NextUsed]_vars

\* C26: address_space_is_used returns true if and only if the block
\* [offset, offset + size) shares at least one byte with a claimed interval,
\* a block that strictly contains a claimed interval included.
C26_UsedIffSharesByte ==
    pf.pc = "done" =>
        (pf.result <=> \E claimed \in pf.args[3] :
                          \E b \in pf.args[1]..(pf.args[1] + pf.args[2] - 1) :
                              b >= claimed[1] /\ b < claimed[1] + claimed[2])

----------------------------------------------------------------------------
(* find_rodata on one haystack *)

MaxRodataWords == 3

\* little-endian words: 0x80010002, 0x80010006, 0x80010000 and 0
RodataWords ==
    {<<\h02, \h00, \h01, \h80>>, <<\h06, \h00, \h01, \h80>>, <<\h00, \h00, \h01, \h80>>,
     NOP_BYTES}

RodataHaystacks ==
    {Flatten(ws) : ws \in UNION {[1..n -> RodataWords] : n \in 0..MaxRodataWords}}

\* the kinds of RODataSignatureType the locator is asked for here
RodataTypes == {"OnlyJumpTables", "EndsWithJumpTable", "Unknown"}

RodataSignatures ==
    {None} \cup {Some([rodataType |-> t, size |-> z]) : t \in RodataTypes, z \in {4, 8, 12}}

\* vram_start: absent or 0x80010000
RodataVrams == {None, Some(<<0, 0, \h8001, 0>>)}

\* pf.args = <<rodata, vram_start, segment_offset, segment_size, mips_family,
\* bytes, overflow_checks>>
InitRodata ==
    /\ \E rodata \in RodataSignatures, vram_start \in RodataVrams, segment_offset \in {0, 4},
          segment_size \in {4, 8}, bytes \in RodataHaystacks, tail \in {<<>>, <<1, 2>>},
          overflow_checks \in BOOLEAN :
          pf = [args |-> <<rodata, vram_start, segment_offset, segment_size, "R3000GTE",
                           bytes \o tail, overflow_checks>>,
                result |-> None, pc |-> "rodata"]
    /\ NormIdle /\ HwIdle /\ FndIdle /\ FpIdle /\ ScIdle /\ BfIdle

FindRodata ==
    /\ pf.pc = "rodata"
    /\ pf' = [pf EXCEPT !.result = find_rodata(pf.args[1], pf.args[2], pf.args[3], pf.args[4],
                                                pf.args[5], pf.args[6], pf.args[7]),
                        !.pc = "found"]
    /\ UNCHANGED <<norm, hw, fnd, fp, sc, bf>>

NextRodata == FindRodata

SpecRodata == InitRodata /\ [][NextRodata]_vars

\* the haystack word at byte i lies outside the text region and its value
\* lies strictly between segment_start and segment_end
Qualifies(i) ==
    /\ ~(i >= pf.args[3] /\ i < pf.args[3] + pf.args[4])
    /\ addr_in_segment(pf.args[6], i, pf.args[5],
                       Add64(pf.args[2][2], SmallAsU64(pf.args[3])),
                       Add64(pf.args[2][2], SmallAsU64(pf.args[3] + pf.args[4])))

RodataOffsets == {4 * k : k \in 0..((Len(pf.args[6]) \div 4) - 1)}

\* the words from byte a up to byte a + n form a run of consecutive
\* qualifying words that no qualifying word precedes or follows
MaximalRun(a, n) ==
    /\ n > 0 /\ a + n <= Len(pf.args[6])
    /\ \A i \in RodataOffsets : (a <= i /\ i < a + n) => Qualifies(i)
    /\ (a - 4) \in RodataOffsets => ~Qualifies(a - 4)
    /\ (a + n) \in RodataOffsets => ~Qualifies(a + n)

RodataCase(type) ==
    /\ pf.pc = "found" /\ pf.args[1] # None /\ pf.args[2] # None
    /\ pf.args[1][2].rodataType = type
    /\ Len(pf.args[6]) % 4 = 0

\* C27: for OnlyJumpTables with vram_start supplied the locator returns the
\* offset of the first run of consecutive qualifying words whose byte length
\* equals rodata.size, with that size, a run that extends to the last word of
\* the haystack included, and absent when no run has that length
C27_OnlyJumpTablesFirstRun ==
    RodataCase("OnlyJumpTables") =>
        IF \E a \in RodataOffsets : MaximalRun(a, pf.args[1][2].size)
        THEN pf.result = Some(RODataOffset(
                 CHOOSE a \in RodataOffsets :
                     /\ MaximalRun(a, pf.args[1][2].size)
                     /\ \A b \in RodataOffsets : MaximalRun(b, pf.args[1][2].size) => a <= b,
                 pf.args[1][2].size))
        ELSE pf.result = None

\* the offset of the last qualifying word, -1 when there is none
LastQualifying ==
    IF \E i \in RodataOffsets : Qualifies(i)
    THEN CHOOSE i \in RodataOffsets :
             Qualifies(i) /\ \A j \in RodataOffsets : Qualifies(j) => j <= i
    ELSE -1

\* C28: for EndsWithJumpTable with vram_start supplied, with L the offset of
\* the last qualifying word, the locator reports offset L - rodata.size + 4
\* with size rodata.size whenever that offset lies in [0, haystack length),
\* and reports absent, without failing, when there is no such word or the
\* offset would be negative
C28_EndsWithJumpTableOffset ==
    RodataCase("EndsWithJumpTable") =>
        IF /\ LastQualifying >= 0
           /\ LastQualifying - pf.args[1][2].size + 4 >= 0
           /\ LastQualifying - pf.args[1][2].size + 4 < Len(pf.args[6])
        THEN pf.result = Some(RODataOffset(LastQualifying - pf.args[1][2].size + 4,
                                           pf.args[1][2].size))
        ELSE pf.result = None

----------------------------------------------------------------------------
(* The arithmetic of the hasher and of the scanner's find, step by step *)

MaxSteps == 3

\* the full product of two u64: eight limbs
MulWide(a, b) == Carried([n \in 1..8 |-> MulColumn(a, b, 8 - n, 0)], 0)

\* the full sum of two u64: five limbs
AddWide(a, b) == Carried(<<0, a[1] + b[1], a[2] + b[2], a[3] + b[3], a[4] + b[4]>>, 0)

\* the u64 product and sum are the mathematical ones
MulExact(a, b) == MulWide(a, b) = <<0, 0, 0, 0>> \o Mul64(a, b)

AddExact(a, b) == AddWide(a, b) = <<0>> \o Add64(a, b)

\* radix * acc + w without overflow
HornerExact(acc, w, radix) ==
    MulExact(radix, acc) /\ AddExact(Mul64(radix, acc), U32AsU64(w))

\* rm * first, hash + q and the subtraction of the reduced product without
\* overflow, then the Horner step on the result
RollExact(hash, rm, first, new, radix, q) ==
    /\ MulExact(rm, U32AsU64(first))
    /\ AddExact(hash, q)
    /\ ~Lt64(Add64(hash, q), Mod64(Mul64(rm, U32AsU64(first)), q))
    /\ HornerExact(Mod64(Sub64(Add64(hash, q), Mod64(Mul64(rm, U32AsU64(first)), q)), q),
                   new, radix)

\* the moduli 1, 2, 0xFFFFFFEF, 0xFFFFFFFF and 2^32
StepModuli ==
    {U64One, SmallAsU64(2), <<0, 0, 65535, 65519>>, <<0, 0, 65535, 65535>>, <<0, 1, 0, 0>>}

\* the words 0, 1, jr $ra and 0xFFFFFFFF
StepWords == {<<0, 0>>, <<0, 1>>, <<\h03E0, \h0008>>, <<65535, 65535>>}

\* pf.args = <<radix, modulus>>; pf.result holds the accumulator, the removal
\* factor, whether every intermediate value so far was below 2^64, whether
\* one was 2^64 - 1, and the number of steps
InitStep ==
    /\ \E q \in StepModuli :
          pf = [args |-> << <<0, 1, 0, 0>>, q>>,
                result |-> [hash |-> U64Zero, rm |-> U64One, exact |-> TRUE, full |-> FALSE,
                            steps |-> 0],
                pc |-> "step"]
    /\ NormIdle /\ HwIdle /\ FndIdle /\ FpIdle /\ ScIdle /\ BfIdle

\* hash = (radix * hash + w) % modulus
HornerStep(w) ==
    /\ pf.pc = "step" /\ pf.result.steps < MaxSteps
    /\ pf' = [pf EXCEPT !.result =
                 [@ EXCEPT !.hash = horner_hash(pf.result.hash, w, pf.args[1], pf.args[2]),
                           !.exact = @ /\ HornerExact(pf.result.hash, w, pf.args[1]),
                           !.full = @ \/ Add64(Mul64(pf.args[1], pf.result.hash),
                                               U32AsU64(w)) = U64Max,
                           !.steps = @ + 1]]
    /\ UNCHANGED <<norm, hw, fnd, fp, sc, bf>>

\* rm = (radix * rm) % modulus
RemovalStep ==
    /\ pf.pc = "step" /\ pf.result.steps < MaxSteps
    /\ pf' = [pf EXCEPT !.result =
                 [@ EXCEPT !.rm = removal_power(pf.result.rm, 1, pf.args[1], pf.args[2]),
                           !.exact = @ /\ MulExact(pf.args[1], pf.result.rm),
                           !.steps = @ + 1]]
    /\ UNCHANGED <<norm, hw, fnd, fp, sc, bf>>

\* the window slides: first leaves, new enters
RollStep(first, new) ==
    /\ pf.pc = "step" /\ pf.result.steps < MaxSteps
    /\ pf' = [pf EXCEPT !.result =
                 [@ EXCEPT !.hash = rk_roll([radix |-> pf.args[1], modulus |-> pf.args[2]],
                                            pf.result.hash, pf.result.rm, first, new),
                           !.exact = @ /\ RollExact(pf.result.hash, pf.result.rm, first, new,
                                                    pf.args[1], pf.args[2]),
                           !.steps = @ + 1]]
    /\ UNCHANGED <<norm, hw, fnd, fp, sc, bf>>

NextStep ==
    \/ \E w \in StepWords : HornerStep(w)
    \/ RemovalStep
    \/ \E first, new \in StepWords : RollStep(first, new)

SpecStep == InitStep /\ [][NextStep]_vars

\* C30: with radix 2^32 and a modulus q with 1 <= q <= 2^32 no intermediate
\* value of a Horner step, of the removal-factor computation or of a roll
\* step exceeds 2^64 - 1, so the u64 results equal the mathematical values,
\* and the accumulator stays below q after every step
C30_NoOverflow ==
    pf.pc = "step" => pf.result.exact /\ Lt64(pf.result.hash, pf.args[2])

\* a Horner step on the accumulator 2^32 - 1 and the word 0xFFFFFFFF under
\* the modulus 2^32 had the intermediate value 2^64 - 1
C30_Witness ==
    /\ pf.pc = "step" /\ pf.args[2] = <<0, 1, 0, 0>>
    /\ pf.result.full /\ pf.result.exact
    /\ pf.result.steps = MaxSteps

----------------------------------------------------------------------------
(* RabinKarpMIPSHasher::find on one haystack *)

MaxHayWords == 3

HayWords == {NOP_BYTES, JR_RA_BYTES, JAL_BYTES}

\* a trailing piece that makes a haystack misaligned
HayTails == {<<>>, <<1, 2>>}

\* needle sizes in bytes: the multiples of 4 up to one word past the haystack,
\* and two sizes that are no multiple of 4
FindSizes(bytes) ==
    {4 * k : k \in 0..((Len(bytes) \div 4) + 1)} \cup {2, Len(bytes) + 1}

\* needle hashes: the hash of every window of the haystack of that size, and
\* two values that need not be the hash of a window
FindNeedles(self, size, bytes) ==
    {U64One, SmallAsU64(2)}
    \cup (IF size % 4 # 0 \/ size = 0 THEN {}
          ELSE {hash_be_mips_bytes(self, U64Zero, SubSeq(bytes, 4 * p + 1, 4 * p + size)) :
                    p \in {p \in 0..(Len(bytes) \div 4) : 4 * p + size <= Len(bytes)}})

InitFind ==
    /\ \E c \in HasherConfigs, ws \in SeqsUpTo(HayWords, MaxHayWords), tail \in HayTails :
          \E size \in FindSizes(Flatten(ws) \o tail) :
             fnd = [self |-> RabinKarpMIPSHasher_new_with_modulus(c[1], c[2]),
                    size |-> size, bytes |-> Flatten(ws) \o tail,
                    needle |-> U64Zero, result |-> None, pc |-> "call"]
    /\ NormIdle /\ HwIdle /\ FpIdle /\ ScIdle /\ BfIdle /\ PfIdle

Find(needle) ==
    /\ fnd.pc = "call"
    /\ fnd' = [fnd EXCEPT !.needle = needle,
                          !.result = RabinKarpMIPSHasher_find(fnd.self, needle, fnd.size, fnd.bytes),
                          !.pc = "done"]
    /\ UNCHANGED <<norm, hw, fp, sc, bf, pf>>

NextFind == \E needle \in FindNeedles(fnd.self, fnd.size, fnd.bytes) : Find(needle)

SpecFind == InitFind /\ [][NextFind]_vars

\* the aligned offsets whose window of `size` bytes has Horner hash `needle`
HitOffsets(self, needle, size, bytes) ==
    {p \in 0..Len(bytes) :
        /\ p % 4 = 0
        /\ p + size <= Len(bytes)
        /\ HornerOf(WordsOf(SubSeq(bytes, p + 1, p + size), self.family),
                    DEFAULT_RADIX, self.modulus) = needle}

SetMin(S) == CHOOSE m \in S : \A n \in S : m <= n

\* C4: on an aligned haystack and a needle of 4k > 0 bytes no longer than the
\* haystack, find returns the smallest aligned offset whose window of k
\* normalized words has Horner hash h, and none when there is no such offset.
C4_FindFirstWindow ==
    (fnd.pc = "done" /\ Len(fnd.bytes) % 4 = 0 /\ fnd.size % 4 = 0
        /\ fnd.size > 0 /\ fnd.size <= Len(fnd.bytes)) =>
        LET hits == HitOffsets(fnd.self, fnd.needle, fnd.size, fnd.bytes)
        IN  fnd.result = IF hits = {} THEN None ELSE Some(SetMin(hits))

\* a two-word needle found in the last window of a three-word haystack
C4_Witness ==
    /\ fnd.pc = "done"
    /\ Len(fnd.bytes) = 12
    /\ fnd.size = 8
    /\ fnd.self.modulus = DEFAULT_MODULUS
    /\ fnd.result = Some(4)

\* C5: find returns None whenever the needle size exceeds the haystack length
\* and Some(0) whenever the needle size is 0, whatever the hash and haystack.
C5_FindEdges ==
    fnd.pc = "done" =>
        /\ fnd.size > Len(fnd.bytes) => fnd.result = None
        /\ fnd.size = 0 => fnd.result = Some(0)

\* a needle of size 0 looked for in the empty haystack
C5_Witness ==
    /\ fnd.pc = "done"
    /\ fnd.bytes = <<>>
    /\ fnd.size = 0
    /\ fnd.result = Some(0)

\* C25: on an aligned haystack and for a needle of k >= 1 words, the scanner's
\* find over the normalized words of the haystack, from word 0 to the word
\* count, returns what RabinKarpMIPSHasher::find returns on the bytes.
C25_ScanFindAgrees ==
    (fnd.pc = "done" /\ Len(fnd.bytes) % 4 = 0 /\ fnd.size % 4 = 0 /\ fnd.size > 0) =>
        scan_find(fnd.needle, fnd.size \div 4, scan_instructions(fnd.bytes, fnd.self.family),
                  0, Len(fnd.bytes) \div 4,
                  [radix |-> fnd.self.radix, modulus |-> fnd.self.modulus,
                   mips_family |-> fnd.self.family])
           = fnd.result

----------------------------------------------------------------------------
(* A fingerprint value: constructed or parsed, rendered, and parsed again *)

FpSizes == { U64Zero, U64One, SmallAsU64(16), SmallAsU64(128), U64Max }

FpHashes == { U64Zero, SmallAsU64(2), SmallAsU64(10), <<0, 0, \h41E0, \h0088>>,
              <<0, \h00AB, \hCDEF, \h0123>>, U64Max }

FpModuli == { SmallAsU64(3), MODULUS_V0, FLETCHER_MODULUS, U64Zero, U64Max }

SizeFields ==
    { <<"1">>,
      <<"0">>,
      <<"1", "6">>,
      <<>>,
      <<"x">>,
      <<"+", "1">>,
      <<"-", "1">>,
      <<"1", "8", "4", "4", "6", "7", "4", "4", "0", "7", "3", "7", "0", "9", "5", "5", "1", "6", "1", "6">>,
      <<"1", "a">>,
      <<"1", "8", "4", "4", "6", "7", "4", "4", "0", "7", "3", "7", "0", "9", "5", "5", "1", "6", "1", "5">> }

HashFields ==
    { <<"2">>,
      <<"a">>,
      <<"A">>,
      <<"D", "e", "a", "d", "B", "e", "e", "f">>,
      <<"g">>,
      <<>>,
      <<"1", "0", "0", "0", "0", "0", "0", "0", "0", "0", "0", "0", "0", "0", "0", "0", "0">>,
      <<"+", "f">>,
      <<"f", "f", "f", "f", "f", "f", "f", "f", "f", "f", "f", "f", "f", "f", "f", "f">>,
      <<"0", "x", "2">> }

ModulusFields ==
    { <<"3">>,
      <<"4", "2", "9", "4", "9", "6", "7", "2", "7", "9">>,
      <<"+", "4", "2", "9", "4", "9", "6", "7", "2", "7", "9">>,
      <<>>,
      <<"f", "f", "f", "f", "f", "f", "e", "f">>,
      <<"1", "8", "4", "4", "6", "7", "4", "4", "0", "7", "3", "7", "0", "9", "5", "5", "1", "6", "1", "6">>,
      <<"4", "2", "9", "4", "9", "6", "7", "2", "9", "5">> }

ExtraFields == { <<>>, <<"4">> }

BadPrefixInputs ==
    { <<>>,
      <<"1", ":", "2">>,
      <<"u", "r", "n", ":", "d", "e", "c", "o", "m", "p", ":", "m", "a", "t", "c", "h", ":", "f", "i", "n", "g", "e", "r", "p", "r", "i", "n", "t", ":", "1", ":", "1", ":", "2">>,
      <<"u", "r", "n", ":", "d", "e", "c", "o", "m", "p", ":", "m", "a", "t", "c", "h", ":", "f", "i", "n", "g", "e", "r", "p", "r", "i", "n", "t", ":", "0">>,
      <<"U", "R", "N", ":", "D", "E", "C", "O", "M", "P", ":", "M", "A", "T", "C", "H", ":", "F", "I", "N", "G", "E", "R", "P", "R", "I", "N", "T", ":", "0", ":", "1", ":", "2">>,
      <<" ", "u", "r", "n", ":", "d", "e", "c", "o", "m", "p", ":", "m", "a", "t", "c", "h", ":", "f", "i", "n", "g", "e", "r", "p", "r", "i", "n", "t", ":", "0", ":", "1", ":", "2">>,
      <<"u", "r", "n", ":", "d", "e", "c", "o", "m", "p", ":", "m", "a", "t", "c", "h", ":", "f", "i", "n", "g", "e", "r", "p", "r", "i", "n", "t", ":", "x", ":", "y", ":", "z", ":", "w", ":", "v">> }

ParseInputs ==
    {FINGERPRINT_V0_PREFIX \o sz : sz \in SizeFields}
    \cup {FINGERPRINT_V0_PREFIX \o sz \o <<":">> \o h : sz \in SizeFields, h \in HashFields}
    \cup {FINGERPRINT_V0_PREFIX \o sz \o <<":">> \o h \o <<":">> \o m :
              sz \in SizeFields, h \in HashFields, m \in ModulusFields}
    \cup {FINGERPRINT_V0_PREFIX \o sz \o <<":">> \o h \o <<":">> \o m \o <<":">> \o x :
              sz \in {<<"1">>, <<"x">>}, h \in {<<"2">>, <<"g">>},
              m \in {<<"3">>, <<>>}, x \in ExtraFields}
    \cup BadPrefixInputs

InitFp ==
    /\ fp = [input |-> FpInput("none", U64Zero, U64Zero, None, <<>>), value |-> None,
             result |-> None, text |-> None, reparsed |-> None, pc |-> "start"]
    /\ NormIdle /\ HwIdle /\ FndIdle /\ ScIdle /\ BfIdle /\ PfIdle

\* FingerprintV0::new
New(size, hash) ==
    /\ fp.pc = "start"
    /\ fp' = [fp EXCEPT !.input = FpInput("new", size, hash, None, <<>>),
                        !.value = Some(FingerprintV0_new(size, hash)),
                        !.pc = "value"]
    /\ UNCHANGED <<norm, hw, fnd, sc, bf, pf>>

\* FingerprintV0::new_with_modulus
NewWithModulus(size, hash, modulus) ==
    /\ fp.pc = "start"
    /\ fp' = [fp EXCEPT !.input = FpInput("new_with_modulus", size, hash, Some(modulus), <<>>),
                        !.value = Some(FingerprintV0_new_with_modulus(size, hash, modulus)),
                        !.pc = "value"]
    /\ UNCHANGED <<norm, hw, fnd, sc, bf, pf>>

\* Fingerprint::from_str on an input string
FromStr(s) ==
    /\ fp.pc = "start"
    /\ \E r \in {Fingerprint_from_str(s)} :
          fp' = [fp EXCEPT !.input = FpInput("from_str", U64Zero, U64Zero, None, s),
                           !.result = r,
                           !.value = IF r[1] = "Ok" THEN Some(r[2]) ELSE None,
                           !.pc = IF r[1] = "Ok" THEN "value"
                                  ELSE IF r = Panic THEN "aborted" ELSE "failed"]
    /\ UNCHANGED <<norm, hw, fnd, sc, bf, pf>>

\* FingerprintV0::to_string on the value
Render ==
    /\ fp.pc = "value"
    /\ fp' = [fp EXCEPT !.text = Some(FingerprintV0_to_string(fp.value[2])), !.pc = "text"]
    /\ UNCHANGED <<norm, hw, fnd, sc, bf, pf>>

\* FingerprintV0::from_str on the rendered string
FromStrRendered ==
    /\ fp.pc = "text"
    /\ fp' = [fp EXCEPT !.reparsed = FingerprintV0_from_str(fp.text[2]), !.pc = "reparsed"]
    /\ UNCHANGED <<norm, hw, fnd, sc, bf, pf>>

NextFp ==
    \/ \E size \in FpSizes, hash \in FpHashes : New(size, hash)
    \/ \E size \in FpSizes, hash \in FpHashes, modulus \in FpModuli :
           NewWithModulus(size, hash, modulus)
    \/ \E s \in ParseInputs : FromStr(s)
    \/ Render
    \/ FromStrRendered

SpecFp == InitFp /\ [][NextFp]_vars

DecChars == {"0", "1", "2", "3", "4", "5", "6", "7", "8", "9"}
LowerHexChars == DecChars \cup {"a", "b", "c", "d", "e", "f"}
HexChars == LowerHexChars \cup {"A", "B", "C", "D", "E", "F"}

\* the text after the version prefix, and its colon-separated fields
AfterPrefix(s) == SubSeq(s, Len(FINGERPRINT_V0_PREFIX) + 1, Len(s))
HasV0Prefix(s) ==
    /\ Len(s) >= Len(FINGERPRINT_V0_PREFIX)
    /\ \A i \in 1..Len(FINGERPRINT_V0_PREFIX) : s[i] = FINGERPRINT_V0_PREFIX[i]
ColonPositions(r) == {i \in 1..Len(r) : r[i] = ":"}
FieldCount(r) == Cardinality(ColonPositions(r)) + 1
KthColon(r, k) ==
    CHOOSE i \in ColonPositions(r) : Cardinality({j \in ColonPositions(r) : j < i}) = k - 1
Field(r, k) ==
    SubSeq(r, IF k = 1 THEN 1 ELSE KthColon(r, k - 1) + 1,
              IF k = FieldCount(r) THEN Len(r) ELSE KthColon(r, k) - 1)

\* the number a digit string denotes, computed modulo 2^64
RECURSIVE PositionalValue(_, _)
PositionalValue(chars, radix) ==
    IF chars = <<>> THEN U64Zero
    ELSE LET c == chars[Len(chars)]
             d == IF c \in DecChars
                  THEN CHOOSE n \in 0..9 : LowerDigits[n + 1] = c
                  ELSE CHOOSE n \in 10..15 : LowerDigits[n + 1] = c \/ UpperDigits[n + 1] = c
             front == PositionalValue(SubSeq(chars, 1, Len(chars) - 1), radix)
         IN  IF front[1] >= 0 THEN Add64(Mul64(front, SmallAsU64(radix)), SmallAsU64(d))
             ELSE front

\* chars is the shortest numeral of v over the digit set
CanonicalNumeral(chars, digits, radix, v) ==
    /\ chars # <<>>
    /\ \A i \in 1..Len(chars) : chars[i] \in digits
    /\ Len(chars) > 1 => chars[1] # "0"
    /\ Len(chars) <= (IF radix = 10 THEN 20 ELSE 16)
    /\ PositionalValue(chars, radix) = v

\* a field u64::from_str_radix reads as a numeral: digits of the radix, after
\* an optional plus sign
NumeralBody(field) == IF field # <<>> /\ field[1] = "+" THEN Tail(field) ELSE field
IsNumeral(field, digits) ==
    LET body == NumeralBody(field)
    IN  body # <<>> /\ \A i \in 1..Len(body) : body[i] \in digits

IsFormatError(r) == r[1] = "Err" /\ r[2][1] = "FormatError"

\* C8: rendering a FingerprintV0 and parsing the rendered string gives back
\* an equal value (same size, hash and modulus), whatever the value is.
C8_RenderParseRoundTrip ==
    fp.pc = "reparsed" => fp.reparsed = Ok(fp.value[2])

C8_Witness ==
    /\ fp.pc = "reparsed"
    /\ fp.value = Some([size |-> SmallAsU64(16), hash |-> SmallAsU64(10),
                        modulus |-> Some(SmallAsU64(3))])
    /\ fp.text = Some(FINGERPRINT_V0_PREFIX \o <<"1", "6", ":", "a", ":", "3">>)
    /\ fp.reparsed = Ok(fp.value[2])

C10_ParseErrors ==
    fp.input.kind = "from_str" =>
        LET s == fp.input.src
            r == AfterPrefix(s)
            n == FieldCount(r)
        IN  /\ fp.result # Panic
            /\ fp.pc # "aborted"
            /\ ~HasV0Prefix(s) => IsFormatError(fp.result)
            /\ HasV0Prefix(s) /\ n \notin {2, 3} => IsFormatError(fp.result)
            /\ (/\ HasV0Prefix(s)
                /\ n \in {2, 3}
                /\ \/ ~IsNumeral(Field(r, 1), DecChars)
                   \/ ~IsNumeral(Field(r, 2), HexChars)
                   \/ n = 3 /\ ~IsNumeral(Field(r, 3), DecChars)) =>
                  fp.result = ParseIntError

C10_Witness ==
    /\ fp.input.kind = "from_str"
    /\ fp.input.src = FINGERPRINT_V0_PREFIX \o <<"x", ":", "g", ":", "3", ":", "4">>
    /\ fp.result = FormatError("parts: > 3")
    /\ fp.pc = "failed"

\* the invariants of a fingerprint value: the size a multiple of 4 (2^16 is
\* one, so the last limb decides) and the hash below the modulus, if present
FingerprintWellFormed(f) ==
    /\ f.size[4] % 4 = 0
    /\ f.modulus # None => Lt64(f.hash, f.modulus[2])

\* C11: every fingerprint value the system creates, by a constructor, by
\* parsing a string or by the evaluator, has a size that is a multiple of 4
\* and a hash strictly below its modulus when a modulus is present
C11_FingerprintInvariants ==
    /\ fp.value # None => FingerprintWellFormed(fp.value[2])
    /\ \A i \in DOMAIN sc.library :
          sc.evaluated[i] # None =>
             /\ FingerprintWellFormed(sc.library[i].fingerprint)
             /\ \A k \in DOMAIN sc.library[i].functions :
                   FingerprintWellFormed(sc.library[i].functions[k].fingerprint)

----------------------------------------------------------------------------
(* The evaluator and the scanner: objects of an image are evaluated into a
   library, other documents are added to it, and the image is scanned *)

MaxImageWords == 4
MaxObjWords == 3
MaxDocs == 2

ImageWords == {NOP_BYTES, JR_RA_BYTES}

Images == {Flatten(ws) : ws \in SeqsUpTo(ImageWords, MaxImageWords) \ {<<>>}}

FunctionEntry(name, offset, size) == [name |-> name, offset |-> offset, size |-> size]

\* the text symbols of an object at offset: none, one over the whole object,
\* or two that meet at a word boundary
Layouts(offset, size) ==
    {<<>>, <<FunctionEntry("f0", offset, size)>>}
    \cup {<<FunctionEntry("f0", offset, 4 * c), FunctionEntry("f1", offset + 4 * c, size - 4 * c)>> :
              c \in 1..((size \div 4) - 1)}

\* the objects of an image: every window of at most MaxObjWords words
ObjectMaps(image) ==
    UNION {{[object |-> "obj", offset |-> 4 * w[1], vrom |-> 0, size |-> 4 * w[2],
             text_symbols |-> l] : l \in Layouts(4 * w[1], 4 * w[2])} :
           w \in {v \in (0..((Len(image) \div 4) - 1)) \X (1..MaxObjWords) :
                      4 * v[1] + 4 * v[2] <= Len(image)}}

\* the hash of a whole slice, nothing trimmed
HashOf(bytes) ==
    RabinKarpMIPSHasher_finish(
        RabinKarpMIPSHasher_write(RabinKarpMIPSHasher_new("R3000GTE"), bytes)[2])

FunctionSignature(name, bytes, size) ==
    [name |-> name, fingerprint |-> FingerprintV0_new(SmallAsU64(Len(bytes)), HashOf(bytes)),
     size |-> size]

SegmentSignature(name, bytes, size, functions) ==
    [name |-> name, fingerprint |-> FingerprintV0_new(SmallAsU64(Len(bytes)), HashOf(bytes)),
     size |-> size, family |-> "R3000GTE", rodata |-> None, functions |-> functions]

\* documents no evaluation of the image wrote: a fingerprint over untrimmed
\* zero words, a size that is no multiple of 4, functions of fingerprint 0,
\* two functions of one name, a function of size 0, another family
OtherDocuments ==
    { SegmentSignature("untrimmed", JR_RA_BYTES \o NOP_BYTES \o NOP_BYTES, 12,
          <<FunctionSignature("f0", JR_RA_BYTES \o NOP_BYTES \o NOP_BYTES, 12)>>),
      SegmentSignature("odd", JR_RA_BYTES, 6, <<>>),
      SegmentSignature("zeros", JR_RA_BYTES \o NOP_BYTES, 8,
          <<FunctionSignature("f0", JR_RA_BYTES, 4), FunctionSignature("f1", <<>>, 4),
            FunctionSignature("f2", <<>>, 4)>>),
      SegmentSignature("twins", JR_RA_BYTES \o JR_RA_BYTES, 8,
          <<FunctionSignature("f0", JR_RA_BYTES, 4), FunctionSignature("f0", JR_RA_BYTES, 4)>>),
      SegmentSignature("empty", JR_RA_BYTES, 4, <<FunctionSignature("f0", <<>>, 0)>>),
      [SegmentSignature("big", JR_RA_BYTES, 4, <<>>) EXCEPT !.family = "R4000"] }

InitScan ==
    /\ \E image \in Images : sc = ScState(image, "library")
    /\ NormIdle /\ HwIdle /\ FndIdle /\ FpIdle /\ BfIdle /\ PfIdle

\* where the objects evaluated so far end: the objects of a map file follow
\* one another in the image
EvaluatedEnd ==
    LET ends == {sc.evaluated[i][2].offset + sc.evaluated[i][2].size :
                     i \in {j \in DOMAIN sc.evaluated : sc.evaluated[j] # None}}
    IN  IF ends = {} THEN 0 ELSE CHOOSE e \in ends : \A x \in ends : x <= e

\* fingerprint: calculate_object_hashes on the next object of the image
Evaluate(map) ==
    /\ sc.pc = "library"
    /\ Len(sc.library) < MaxDocs
    /\ map.offset >= EvaluatedEnd
    /\ \E sig \in {calculate_object_hashes(map, sc.image, Options_new)} :
          IF sig = Panic
          THEN sc' = [sc EXCEPT !.pc = "aborted"]
          ELSE sc' = [sc EXCEPT !.library = Append(@, sig[2]),
                                !.evaluated = Append(@, Some(map))]
    /\ UNCHANGED <<norm, hw, fnd, fp, bf, pf>>

\* a document of the library that comes from elsewhere
AddDocument(doc) ==
    /\ sc.pc = "library"
    /\ Len(sc.library) < MaxDocs
    /\ sc' = [sc EXCEPT !.library = Append(@, doc), !.evaluated = Append(@, None)]
    /\ UNCHANGED <<norm, hw, fnd, fp, bf, pf>>

\* the last document read once more: a match file named twice, or a file
\* that holds a document twice.  The libraries this is done for are those
\* of MaxDocs documents of one size, not all the same document: the ones
\* whose sort depends on the counts.
RepeatDocument ==
    /\ sc.pc = "library"
    /\ Len(sc.library) = MaxDocs
    /\ \A i \in DOMAIN sc.library : sc.library[i].size = sc.library[1].size
    /\ \E i \in DOMAIN sc.library : sc.library[i] # sc.library[1]
    /\ sc' = [sc EXCEPT !.library = Append(@, sc.library[Len(sc.library)]),
                        !.evaluated = Append(@, sc.evaluated[Len(sc.evaluated)])]
    /\ UNCHANGED <<norm, hw, fnd, fp, bf, pf>>

\* scan, up to its loop: the documents read, counted and sorted, the family
\* taken from each document in turn, the image decoded
ScanPrepare ==
    /\ sc.pc = "library"
    /\ sc' \in scan_prepared(sc)
    /\ UNCHANGED <<norm, hw, fnd, fp, bf, pf>>

\* one turn of the loop of scan over the sorted segments
ScanSegment ==
    /\ sc.pc = "match"
    /\ sc' \in scan_turn(sc)
    /\ UNCHANGED <<norm, hw, fnd, fp, bf, pf>>

NextScan ==
    \/ \E map \in ObjectMaps(sc.image) : Evaluate(map)
    \/ \E doc \in OtherDocuments : AddDocument(doc)
    \/ RepeatDocument
    \/ ScanPrepare
    \/ ScanSegment

Spec == InitScan /\ [][NextScan]_vars

\* the offsets of the aligned windows of size bytes that come before offset p
EarlierWindows(image, p, size) == {4 * k : k \in 0..((p \div 4) - 1)}

Window(image, p, size) == SubSeq(image, p + 1, p + size)

\* C1: when the library is the one signature S the evaluator wrote for the
\* object B at offset p of the image, and no earlier aligned window of B's
\* length has B's hash (nor S's), then the finished scan has emitted a
\* SegmentOffset at p whose symbols map every function of S to its offset.
C1_RoundTrip ==
    (/\ sc.pc = "done"
     /\ Len(sc.library) = 1
     /\ sc.evaluated[1] # None) =>
        LET m == sc.evaluated[1][2]
            S == sc.library[1]
            p == m.offset - m.vrom
            B == Window(sc.image, p, m.size)
        IN  (\A e \in EarlierWindows(sc.image, p, m.size) :
                 /\ HashOf(Window(sc.image, e, m.size)) # HashOf(B)
                 /\ HashOf(Window(sc.image, e, m.size)) # S.fingerprint.hash) =>
            \E k \in DOMAIN sc.out :
                /\ sc.out[k].offset = p
                /\ sc.out[k].symbols =
                       {<<m.text_symbols[i].name, p + (m.text_symbols[i].offset - m.offset)>> :
                            i \in DOMAIN m.text_symbols}

\* C6: no two SegmentOffsets emitted by one scan have overlapping byte ranges
\* [offset, offset + size).
C6_NoOverlap ==
    \A i, j \in DOMAIN sc.out :
        i < j => \/ sc.out[i].offset + sc.out[i].size <= sc.out[j].offset
                 \/ sc.out[j].offset + sc.out[j].size <= sc.out[i].offset

C6_Witness ==
    /\ sc.pc = "done"
    /\ Len(sc.out) = 2
    /\ sc.out[1].size > sc.out[2].size
    /\ sc.out[2].offset + sc.out[2].size = sc.out[1].offset

SymbolOffset(so, name) == (CHOOSE e \in so.symbols : e[1] = name)[2]

\* C7: for every emitted SegmentOffset, the offsets recorded for the segment's
\* functions, taken in the segment's declared function order, are strictly
\* ascending.
C7_FunctionOffsetsAscending ==
    \A k \in DOMAIN sc.out :
        LET functions == sc.out_segment[k].functions
        IN  \A i, j \in DOMAIN functions :
                i < j => /\ \E e \in sc.out[k].symbols : e[1] = functions[i].name
                         /\ \E e \in sc.out[k].symbols : e[1] = functions[j].name
                         /\ SymbolOffset(sc.out[k], functions[i].name)
                                < SymbolOffset(sc.out[k], functions[j].name)

C7_Witness ==
    \E k \in DOMAIN sc.out :
        LET functions == sc.out_segment[k].functions
        IN  /\ Len(functions) = 2
            /\ functions[1].fingerprint = functions[2].fingerprint
            /\ sc.out[k].symbols = {<<"f0", sc.out[k].offset>>, <<"f1", sc.out[k].offset + 4>>}

\* how often a document occurs among the documents read
Occurrences(doc) == Cardinality({i \in DOMAIN sc.library : sc.library[i] = doc})

\* the turn of the loop in which the k-th document was emitted
EmissionTurn(k) ==
    CHOOSE t \in DOMAIN sc.log :
        /\ sc.log[t] = "emitted"
        /\ Cardinality({u \in 1..t : sc.log[u] = "emitted"}) = k

C16_ScanDeterministic ==
    sc.pc = "library" =>
        Cardinality(UNION {scan_outputs(t) : t \in scan_prepared(sc)}) = 1

\* C17: the turn of the loop that accepts a segment appends the segment's
\* document to the sink before the next turn starts, and no other turn
\* changes the sink: a turn that fails leaves in the sink every document
\* emitted before it.
C17_WrittenBeforeNextSegment ==
    [][sc.pc = "match" =>
          IF sc'.log = Append(sc.log, "emitted")
          THEN /\ Len(sc'.out) = Len(sc.out) + 1
               /\ SubSeq(sc'.out, 1, Len(sc.out)) = sc.out
               /\ sc'.out[Len(sc'.out)].size = sc.sorted_segments[sc.next].size
               /\ sc'.out_segment = Append(sc.out_segment, sc.sorted_segments[sc.next])
          ELSE sc'.out = sc.out]_vars

\* a scan that failed at its second segment after it emitted the first
C17_Witness ==
    /\ sc.pc = "aborted"
    /\ sc.log = <<"emitted", "panic">>
    /\ Len(sc.out) = 1
    /\ sc.out[1].size > sc.sorted_segments[2].size

\* the end offset of the last word of bytes that is not all zero, 0 if none
LastNonZeroEnd(bytes) ==
    LET ends == {4 * k : k \in {j \in 1..(Len(bytes) \div 4) :
                                  SubSeq(bytes, 4 * j - 3, 4 * j) # <<0, 0, 0, 0>>}}
    IN  IF ends = {} THEN 0 ELSE CHOOSE e \in ends : \A x \in ends : x <= e

\* the fingerprint f is the one of the first keep bytes of the range
CoversPrefix(f, bytes, keep, options) ==
    /\ f.size = SmallAsU64(keep)
    /\ f.hash = HornerOf(WordsOf(SubSeq(bytes, 1, keep), options.mips_family),
                         options.radix, options.modulus)

\* the fingerprint f covers the range up to its last non-zero word and one
\* word more, if the range has one more
CoversTrimmedPrefix(f, bytes, options) ==
    CoversPrefix(f, bytes, Min(Len(bytes), LastNonZeroEnd(bytes) + 4), options)

\* C18: the fingerprint the evaluator computes for an aligned range of at
\* least 4 bytes (an object, or a text symbol of it) has the size
\* min(len, e + 4), e the end offset of the last non-zero word of the range
\* (0 if every word is zero), and the Horner hash of the prefix of that size.
\* Stated of the document the evaluator wrote last: every evaluated document
\* is the last one in the state its evaluation leads to.
C18_SigForRangeTrims ==
    sc.pc = "library" =>
        \A i \in DOMAIN sc.library \cap {Len(sc.library)} :
            sc.evaluated[i] # None =>
                LET map == sc.evaluated[i][2]
                IN  /\ CoversTrimmedPrefix(sc.library[i].fingerprint,
                                           Window(sc.image, map.offset - map.vrom, map.size),
                                           Options_new)
                    /\ \A k \in DOMAIN map.text_symbols :
                          CoversTrimmedPrefix(sc.library[i].functions[k].fingerprint,
                                              Window(sc.image, map.text_symbols[k].offset - map.vrom,
                                                     map.text_symbols[k].size),
                                              Options_new)

\* evaluated: jr $ra and two zero words, of which the fingerprint keeps one;
\* three zero words, of which it keeps one; and a range that ends in jr $ra
C18_Witness ==
    /\ sc.pc = "library"
    /\ Len(sc.library) = 2
    /\ sc.evaluated[1] # None /\ sc.evaluated[2] # None
    /\ Window(sc.image, sc.evaluated[1][2].offset, sc.evaluated[1][2].size)
          = JR_RA_BYTES \o NOP_BYTES \o NOP_BYTES
    /\ sc.library[1].fingerprint.size = SmallAsU64(8)
    /\ sc.library[1].fingerprint.hash = <<0, 0, \h41E0, \h0088>>
    /\ Window(sc.image, sc.evaluated[2][2].offset, sc.evaluated[2][2].size) = JR_RA_BYTES
    /\ sc.library[2].fingerprint.size = SmallAsU64(4)

\* C19: for each text symbol of an object the evaluator's function
\* fingerprint is the one of the whole slice [offset, offset + size) of the
\* symbol: its size is the symbol's size and its hash covers every word of
\* the slice, the trailing zero words included.
C19_FunctionFingerprintExact ==
    sc.pc = "library" =>
        \A i \in DOMAIN sc.library :
            sc.evaluated[i] # None =>
                LET map == sc.evaluated[i][2]
                IN  \A k \in DOMAIN map.text_symbols :
                        /\ sc.library[i].functions[k].size = map.text_symbols[k].size
                        /\ CoversPrefix(sc.library[i].functions[k].fingerprint,
                                        Window(sc.image, map.text_symbols[k].offset - map.vrom,
                                               map.text_symbols[k].size),
                                        map.text_symbols[k].size, Options_new)

\* C20: the size of every SegmentSignature the evaluator writes is the number
\* of bytes of the trimmed window its fingerprint was computed over (the size
\* of the fingerprint), so the size / 4 words the scanner hashes are as many
\* as the evaluator hashed.
C20_SegmentSizeIsTrimmed ==
    sc.pc = "library" =>
        \A i \in DOMAIN sc.library :
            sc.evaluated[i] # None =>
                /\ SmallAsU64(sc.library[i].size) = sc.library[i].fingerprint.size
                /\ sc.library[i].fingerprint.hash =
                       HornerOf(WordsOf(Window(sc.image,
                                               sc.evaluated[i][2].offset - sc.evaluated[i][2].vrom,
                                               4 * (sc.library[i].size \div 4)),
                                        Options_new.mips_family),
                                Options_new.radix, Options_new.modulus)

\* C21: once the documents are loaded, the family the haystack is decoded
\* and normalized with is the family of the first document loaded.
C21_FamilyOfFirstDocument ==
    (sc.pc \in {"match", "done"} /\ sc.library # <<>>) =>
        /\ sc.options.mips_family = sc.library[1].family
        /\ sc.instructions = scan_instructions(sc.image, sc.library[1].family)

\* how often the name occurs in a list of names
NameCount(names, n) == Cardinality({i \in DOMAIN names : names[i] = n})

\* the most common name of a non-empty list; of several, the one inserted first
FirstMostCommon(names) ==
    names[CHOOSE i \in DOMAIN names :
             /\ \A j \in DOMAIN names : NameCount(names, names[j]) <= NameCount(names, names[i])
             /\ \A j \in 1..(i - 1) : NameCount(names, names[j]) < NameCount(names, names[i])]

\* C22: the name of an emitted SegmentOffset is the most common of the names
\* recorded for the segment's fingerprint hash, of several equally common
\* ones the one inserted first, and the segment's own name if none is recorded.
C22_BestName ==
    \A k \in DOMAIN sc.out :
        LET names == scan_names(sc.library, sc.out_segment[k].fingerprint.hash)
        IN  sc.out[k].name = (IF names = <<>> THEN sc.out_segment[k].name
                              ELSE FirstMostCommon(names))

\* the number of functions the forward search of a segment at offset finds:
\* each function searched from the end of the function found before it
RECURSIVE FunctionHits(_, _, _, _, _, _, _)

FunctionHitsFound(function_offset, functions, k, position, offset, segment, instructions, options) ==
    IF function_offset = Panic \/ function_offset = None
    THEN FunctionHits(functions, k + 1, position, offset, segment, instructions, options)
    ELSE 1 + FunctionHits(functions, k + 1, function_offset[2] + functions[k].size,
                          offset, segment, instructions, options)

FunctionHits(functions, k, position, offset, segment, instructions, options) ==
    IF k > Len(functions) THEN 0
    ELSE FunctionHitsFound(scan_find(functions[k].fingerprint.hash, functions[k].size \div 4,
                                     instructions, position \div 4,
                                     (offset + segment.size) \div 4, options),
                           functions, k, position, offset, segment, instructions, options)

\* the last entry of the log after a turn of the loop
TurnOutcome == sc'.log[Len(sc'.log)]

\* the offset the segment of this turn is found at
TurnOffset ==
    scan_find(sc.sorted_segments[sc.next].fingerprint.hash,
              sc.sorted_segments[sc.next].size \div 4,
              sc.instructions, 0, Len(sc.instructions), sc.options)[2]

\* C23: a segment found at a free interval is emitted if and only if the
\* forward search finds every one of its declared functions (as many hits as
\* declared functions, whatever their names); otherwise it is dropped and
\* nothing is written.
C23_EmittedIffAllFunctionsFound ==
    [][(sc.pc = "match" /\ Len(sc'.log) = Len(sc.log) + 1
          /\ TurnOutcome \in {"emitted", "dropped"}) =>
          /\ TurnOutcome = "emitted" <=>
                 FunctionHits(sc.sorted_segments[sc.next].functions, 1, TurnOffset, TurnOffset,
                              sc.sorted_segments[sc.next], sc.instructions, sc.options)
                    = Len(sc.sorted_segments[sc.next].functions)
          /\ TurnOutcome = "dropped" => sc'.out = sc.out]_vars

\* the blocks [offset, offset + size) and block share a byte
SharesByte(offset, size, block) ==
    \E b \in offset..(offset + size - 1) : b >= block[1] /\ b < block[1] + block[2]

\* the claim set after the turn is the one before it and one interval of the
\* turn's segment that overlaps no interval claimed before
ClaimsOneFreeInterval ==
    \E block \in sc'.allocated_address_space \ sc.allocated_address_space :
        /\ sc'.allocated_address_space = sc.allocated_address_space \cup {block}
        /\ block[2] = sc.sorted_segments[sc.next].size
        /\ \A claimed \in sc.allocated_address_space : ~SharesByte(block[1], block[2], claimed)

\* C24: the claim set only grows; a candidate found at a free interval claims
\* it whether it is then emitted or dropped for its functions, and a candidate
\* that overlaps a claimed interval is skipped: it claims and writes nothing.
C24_ClaimPersists ==
    [][/\ sc.allocated_address_space \subseteq sc'.allocated_address_space
       /\ (sc.pc = "match" /\ Len(sc'.log) = Len(sc.log) + 1) =>
             /\ TurnOutcome \in {"emitted", "dropped"} => ClaimsOneFreeInterval
             /\ TurnOutcome \in {"used", "not found"} =>
                    /\ sc'.allocated_address_space = sc.allocated_address_space
                    /\ sc'.out = sc.out]_vars

\* a segment dropped for its functions, and a later one skipped because it
\* lies in the interval the dropped one claimed
C24_Witness ==
    /\ sc.pc = "done"
    /\ sc.log = <<"dropped", "used">>
    /\ sc.out = <<>>
    /\ \E block \in sc.allocated_address_space : block[2] = sc.sorted_segments[1].size
    /\ Cardinality(sc.allocated_address_space) = 1

\* C29: every function recorded in the symbols of an emitted SegmentOffset of
\* offset o and size s, with offset f and declared size z, lies wholly inside
\* the segment, o <= f and f + z <= o + s, and the Horner hash of the z/4
\* haystack words starting at f equals the function's fingerprint
C29_FunctionsInsideSegment ==
    \A k \in DOMAIN sc.out :
        \A i \in DOMAIN sc.out_segment[k].functions :
            (\E e \in sc.out[k].symbols : e[1] = sc.out_segment[k].functions[i].name) =>
                LET f == SymbolOffset(sc.out[k], sc.out_segment[k].functions[i].name)
                    z == sc.out_segment[k].functions[i].size
                IN  /\ sc.out[k].offset <= f
                    /\ f + z <= sc.out[k].offset + sc.out[k].size
                    /\ f + z <= Len(sc.image)
                    /\ HornerOf(SubSeq(sc.instructions, (f \div 4) + 1, (f + z) \div 4),
                                sc.options.radix, sc.options.modulus)
                           = sc.out_segment[k].functions[i].fingerprint.hash

====
